---- MODULE Spec2Model ----
(***************************************************************************)
(* Line-calling job orchestration of app.py: the global inference_status   *)
(* record, the /run_inference and /check_inference_status routes served on *)
(* concurrent request threads, and run_inference_task with its two worker  *)
(* threads (run_tflite, run_homography) and its slow-motion fallback       *)
(* (Spec); and one call of run_homography_check (homography_controller.py) *)
(* followed step by step, from get_landing_point to the record the job     *)
(* stores for its result (HomographySpec). Three smaller units are         *)
(* followed on their own: one call of point_in_polygon (PolygonSpec), the  *)
(* batch loop of run_inference_on_video (LoopSpec), and the recording      *)
(* functions of camera_controller.py called from concurrent threads        *)
(* (CameraSpec).                                                           *)
(*                                                                         *)
(* Strings built by f-strings and os.path.join are sequences of string     *)
(* tokens; Python None is the empty sequence.                              *)
(***************************************************************************)
EXTENDS Integers, Sequences, FiniteSets, TLC

\* ------------------------------------------------------------------ bounds
MaxJobs == 2

Jobs == 1..MaxJobs
\* Two request threads of the threaded server: the least number that can
\* interleave inside run_inference_route.
RequestThreads == {1, 2}

\* ------------------------------------------------------- values and paths
None == <<>>

OUTPUT_DIR_INFERENCES == <<"static", "line_call_inferences">>

\* The one uploaded clip that exists on disk, and a path that does not.
ClipInput == <<"/", "static", "uploads", "clip.mp4">>
GoneInput == <<"/", "static", "uploads", "gone.mp4">>
InputPaths == {ClipInput, GoneInput, None}
files == {<<"static", "uploads", "clip.mp4">>}

RECURSIVE lstrip(_)
lstrip(p) == IF p # <<>> /\ Head(p) = "/" THEN lstrip(Tail(p)) ELSE p

basename(p) == IF p = <<>> THEN <<>> ELSE <<p[Len(p)]>>
join(d, f) == d \o f
exists(p) == p \in files

\* f"{prefix}{base_filename}" for the file names the pipeline derives.
prefixed(prefix, base) ==
    CASE prefix = "inferred_"   /\ base = "clip.mp4" -> "inferred_clip.mp4"
      [] prefix = "yolo_homog_" /\ base = "clip.mp4" -> "yolo_homog_clip.mp4"
      [] prefix = "slowmo_"     /\ base = "clip.mp4" -> "slowmo_clip.mp4"
      [] prefix = "inferred_"   /\ base = "gone.mp4" -> "inferred_gone.mp4"
      [] prefix = "yolo_homog_" /\ base = "gone.mp4" -> "yolo_homog_gone.mp4"
      [] prefix = "slowmo_"     /\ base = "gone.mp4" -> "slowmo_gone.mp4"

\* f"yolo_homog_{splitext(base_filename)[0]}{suffix}" of the render helpers.
rendered(base, suffix) ==
    CASE base = "clip.mp4" /\ suffix = "_2d_full.png" -> "yolo_homog_clip_2d_full.png"
      [] base = "clip.mp4" /\ suffix = "_2d_zoom.png" -> "yolo_homog_clip_2d_zoom.png"
      [] base = "clip.mp4" /\ suffix = "_replay.mp4"  -> "yolo_homog_clip_replay.mp4"
      [] base = "gone.mp4" /\ suffix = "_2d_full.png" -> "yolo_homog_gone_2d_full.png"
      [] base = "gone.mp4" /\ suffix = "_2d_zoom.png" -> "yolo_homog_gone_2d_zoom.png"
      [] base = "gone.mp4" /\ suffix = "_replay.mp4"  -> "yolo_homog_gone_replay.mp4"

filesystem_path_of(input_video_path) == lstrip(input_video_path)
base_filename_of(input_video_path) == basename(filesystem_path_of(input_video_path))[1]

\* --------------------------------------------------------------- messages
MsgStarting == <<"Process starting...">>
MsgStage1 == <<"Stage 1/2: Running shuttle tracking and court detection in parallel...">>
MsgComplete == <<"Line calling process complete. ">>
RuntimeFailed == "Failed after {minutes}m {seconds}s"
RuntimeTotal == "Total runtime: {minutes}m {seconds}s"
SlowmoSuffix == " Showing slow-motion video instead."

\* error_msg values returned by run_inference_on_video
TfliteLoadError == <<"Error loading TFLite model: {e}.">>
TfliteLoopError == <<"Error during inference loop: {e}">>
\* an exception escaping run_inference_on_video, as str(e)
TfliteRaised == <<"{exception raised by run_inference_on_video}">>

\* failure messages returned by run_homography_check
NoLandingPoint == <<"No valid landing point found in CSV. Cannot determine IN/OUT.">>
CannotOpenVideo == <<"Cannot open video file: {video_path}">>
YoloModelMissing == <<"YOLO model not found at {MODEL_PATH}. Please place it in the root directory.">>
AutoHomographyFailed == <<"Automatic court detection failed. Try Semi-Auto mode.">>
WriterFailed == <<"Could not create VideoWriter at {web_output_path}">>
HomographyRaised == <<"{str(e) of the exception caught in run_homography_check}">>

\* exceptions raised by run_inference_task / run_homography, as str(e)
InputNotFound == <<"File not found at {filesystem_path}">>
CsvNotFound == <<"CSV file not found: {tflite_csv_path}">>
CsvUnreadable == <<"CSV file is not readable or incomplete: {e}">>

\* ------------------------------------------------------------- the record
IdleRecord ==
    [status |-> "idle", output_url |-> None, output_2d_url |-> None,
     output_2d_zoom_url |-> None, output_replay_url |-> None, message |-> None]

RunningRecord ==
    [status |-> "running", output_url |-> None, output_2d_url |-> None,
     output_2d_zoom_url |-> None, output_replay_url |-> None,
     message |-> MsgStarting]

VARIABLES
    inference_status,   \* the global Job Record (app.py:44)
    csv,                \* inferred_clip.csv on disk: "absent", "header", "rows"
    req,                \* position of each request thread in run_inference_route
    http_response,      \* the response most recently returned by a route
    njobs,              \* number of run_inference_task threads started so far
    pc,                 \* position of each run_inference_task thread
    input_video_path,   \* its argument
    manual_points,      \* its argument (TRUE: four points supplied)
    tflite_pc,          \* position of its run_tflite thread
    tflite_result,      \* <<success, vid_path>> or None
    tflite_exception,
    homog_pc,           \* position of its run_homography thread
    homog_result,       \* <<success, vid_path, 2d_full, 2d_zoom, replay>> or None
    homog_exception,
    e,                  \* the exception caught at app.py:267, as str(e)
    slowmo_video_path,
    slowmo_calls        \* calls of create_full_slowmotion_video made by the task

\* The locals of one call of run_homography_check (homography_controller.py).
VARIABLES
    hc_pc,              \* position of the call; "none" when it is not followed
    df_visible,         \* the table at line 87: flagged-frame candidates by index
    landing,            \* <<landing_point, landing_frame, total_frames>> (line 462)
    cap,                \* the video capture: "none", "open", "released"
    fps,                \* cap.get(CAP_PROP_FPS), in tenths of a frame per second
    model,              \* TRUE once YOLO(MODEL_PATH) has been loaded (line 487)
    scanned,            \* frames read by the search loop (line 491)
    boxes,              \* r.boxes of the frame the detector last ran on
    detected_pts,       \* the four image points handed to findHomography
    H,                  \* the homography, None until computed
    H_inv,
    findHomography_calls,
    intersection_pts,   \* the IN-zone polygon, or None (line 554)
    frame_idx,
    show_result,
    in_zone,
    point_in_polygon_calls,
    web_paths,          \* <<web_2d_full_path, web_2d_zoom_path, web_replay_path>>
    render_log          \* the render functions called so far: <<name, succeeded>>

\* One call of point_in_polygon (homography_controller.py:56).
VARIABLES
    pip_polygon,        \* its argument polygon, None when no call is followed
    pip_point,          \* its argument point
    pip_result          \* <<returned value>>, None before the return

pip_vars == <<pip_polygon, pip_point, pip_result>>

\* The batch loop of one call of run_inference_on_video
\* (inference_controller.py:113-241).
VARIABLES
    loop_pc,            \* "none" (not followed), "read", "process", "returned"
    video_ended,
    frame_queue,        \* len(frame_queue)
    frame_count,
    csv_lines,          \* the data rows of output_csv_path: <<Frame, is_last_frame>>
    frames_read,        \* cap.read() calls that returned a frame
    loop_result         \* <<success, message or path>> once returned, else None

loop_vars == <<loop_pc, video_ended, frame_queue, frame_count, csv_lines,
               frames_read, loop_result>>

\* The globals of camera_controller.py (lines 15-22) and its threads.
VARIABLES
    picam_started,        \* picam is set and picam.started
    recording_active,
    recording_thread,     \* <<n>>: the Thread object of recording n, or None
    stop_recording_event, \* TRUE when the event is set
    ffmpeg_process,       \* <<n>>: the Popen object of recording n, or None
    output_path,
    threads_alive,        \* the frame-feeding threads that are alive
    processes_running,    \* the ffmpeg processes that have not terminated
    nrecordings,          \* recordings started so far
    cam_pc,               \* each calling thread: "idle", "join", "close", "return"
    held,                 \* <<recording_thread, ffmpeg_process, output_path>> as
                          \* they were when the caller's stop_recording held the lock
    cam_return            \* what the caller's last call returned

cam_vars == <<picam_started, recording_active, recording_thread,
              stop_recording_event, ffmpeg_process, output_path, threads_alive,
              processes_running, nrecordings, cam_pc, held, cam_return>>

\* Everything the job orchestration and run_homography_check never touch.
unit_vars == <<pip_vars, loop_vars, cam_vars>>

hc_vars == <<hc_pc, df_visible, landing, cap, fps, model, scanned, boxes,
             detected_pts, H, H_inv, findHomography_calls, intersection_pts,
             frame_idx, show_result, in_zone, point_in_polygon_calls, web_paths, render_log>>

vars == <<inference_status, csv, req, http_response, njobs, pc, input_video_path,
          manual_points, tflite_pc, tflite_result, tflite_exception, homog_pc,
          homog_result, homog_exception, e, slowmo_video_path, slowmo_calls,
          hc_vars, unit_vars>>

task_vars == <<pc, input_video_path, manual_points, tflite_pc, tflite_result,
               tflite_exception, homog_pc, homog_result, homog_exception, e,
               slowmo_video_path, slowmo_calls>>

NoResponse == [route |-> "none", code |-> 0, body |-> None]

\* The locals of run_homography_check before the call and after its return.
hc_locals_gone ==
    /\ df_visible = <<>>
    /\ landing = None
    /\ fps = 0
    /\ model = FALSE
    /\ scanned = 0
    /\ boxes = None
    /\ detected_pts = None
    /\ H = None
    /\ H_inv = None
    /\ findHomography_calls = 0
    /\ intersection_pts = None
    /\ frame_idx = 0
    /\ show_result = FALSE
    /\ in_zone = FALSE
    /\ point_in_polygon_calls = 0
    /\ web_paths = <<None, None, None>>
    /\ render_log = <<>>

\* Spec takes run_homography_check as one step (run_homography_call).
hc_not_followed ==
    /\ hc_pc = "none"
    /\ cap = "none"
    /\ hc_locals_gone

\* No call of point_in_polygon is followed on its own.
pip_not_followed ==
    /\ pip_polygon = None
    /\ pip_point = None
    /\ pip_result = None

\* No batch loop is followed on its own.
loop_not_followed ==
    /\ loop_pc = "none"
    /\ video_ended = FALSE
    /\ frame_queue = 0
    /\ frame_count = 0
    /\ csv_lines = <<>>
    /\ frames_read = 0
    /\ loop_result = None

\* The threads that call into camera_controller.py.
CameraCallers == {1, 2}

\* camera_controller.py:15-22: the module as imported, nothing called yet.
camera_imported ==
    /\ recording_active = FALSE
    /\ recording_thread = None
    /\ stop_recording_event = FALSE
    /\ ffmpeg_process = None
    /\ output_path = None
    /\ threads_alive = {}
    /\ processes_running = {}
    /\ nrecordings = 0
    /\ cam_pc = [c \in CameraCallers |-> "idle"]
    /\ held = [c \in CameraCallers |-> None]
    /\ cam_return = [c \in CameraCallers |-> None]

\* The camera is not followed: nobody calls into camera_controller.py.
camera_not_followed == picam_started = FALSE /\ camera_imported

units_not_followed == pip_not_followed /\ loop_not_followed /\ camera_not_followed

\* The job orchestration before the first request.
no_job_yet ==
    /\ inference_status = IdleRecord
    /\ csv = "absent"
    /\ req = [r \in RequestThreads |-> "idle"]
    /\ http_response = NoResponse
    /\ njobs = 0
    /\ pc = [t \in Jobs |-> "unborn"]
    /\ input_video_path = [t \in Jobs |-> None]
    /\ manual_points = [t \in Jobs |-> FALSE]
    /\ tflite_pc = [t \in Jobs |-> "none"]
    /\ tflite_result = [t \in Jobs |-> None]
    /\ tflite_exception = [t \in Jobs |-> None]
    /\ homog_pc = [t \in Jobs |-> "none"]
    /\ homog_result = [t \in Jobs |-> None]
    /\ homog_exception = [t \in Jobs |-> None]
    /\ e = [t \in Jobs |-> None]
    /\ slowmo_video_path = [t \in Jobs |-> None]
    /\ slowmo_calls = [t \in Jobs |-> 0]

Init ==
    /\ no_job_yet
    /\ hc_not_followed
    /\ units_not_followed

\* ------------------------------------------------- POST /run_inference
\* A status test that never matches (the literal misspelt).
AlreadyRunning_never(rec) == rec.status = "Running"

\* app.py:588-589: the status test and its rejection.
AlreadyRunning(rec) == rec.status = "running"

run_inference_route_reject(r) ==
    /\ req[r] = "idle"
    /\ AlreadyRunning(inference_status)
    /\ http_response' = [route |-> "run_inference", code |-> 400,
                         body |-> <<"An inference job is already running.">>]
    /\ UNCHANGED <<inference_status, csv, req, njobs, task_vars>>
    /\ UNCHANGED <<hc_vars, unit_vars>>

\* app.py:588 passed; the thread goes on to read the request body.
run_inference_route_check(r) ==
    /\ req[r] = "idle"
    /\ ~AlreadyRunning(inference_status)
    /\ req' = [req EXCEPT ![r] = "checked"]
    /\ UNCHANGED <<inference_status, csv, http_response, njobs, task_vars>>
    /\ UNCHANGED <<hc_vars, unit_vars>>

\* app.py:595-596
run_inference_route_no_input(r) ==
    /\ req[r] = "checked"
    /\ req' = [req EXCEPT ![r] = "idle"]
    /\ http_response' = [route |-> "run_inference", code |-> 400,
                         body |-> <<"No input_path provided.">>]
    /\ UNCHANGED <<inference_status, csv, njobs, task_vars>>
    /\ UNCHANGED <<hc_vars, unit_vars>>

\* app.py:603-608: publish the running record and start run_inference_task.
run_inference_route_start(r, input_path, points) ==
    /\ req[r] = "checked"
    /\ input_path # None
    /\ njobs < MaxJobs
    /\ inference_status' = RunningRecord
    /\ njobs' = njobs + 1
    /\ pc' = [pc EXCEPT ![njobs + 1] = "start"]
    /\ input_video_path' = [input_video_path EXCEPT ![njobs + 1] = input_path]
    /\ manual_points' = [manual_points EXCEPT ![njobs + 1] = points]
    /\ req' = [req EXCEPT ![r] = "idle"]
    /\ http_response' = [route |-> "run_inference", code |-> 200,
                         body |-> <<"Inference process started.">>]
    /\ UNCHANGED <<csv, tflite_pc, tflite_result, tflite_exception, homog_pc,
                   homog_result, homog_exception, e, slowmo_video_path,
                   slowmo_calls>>
    /\ UNCHANGED <<hc_vars, unit_vars>>

\* ------------------------------------------ GET /check_inference_status
\* app.py:619-627
normalize_static_url(path) ==
    IF path = None THEN None
    ELSE IF Head(path) \in {"http://", "https://"} THEN path
    ELSE LET normalized == lstrip(path)
             filename == IF Len(normalized) > 1 /\ Head(normalized) = "static"
                         THEN Tail(normalized) ELSE normalized
         IN  <<"/", "static">> \o filename

\* app.py:618-636: the conversions applied to a record.
with_urls(rec) ==
    IF rec.status \in {"complete", "error"}
    THEN [rec EXCEPT !.output_url = normalize_static_url(@),
                     !.output_2d_url = normalize_static_url(@),
                     !.output_2d_zoom_url = normalize_static_url(@),
                     !.output_replay_url = normalize_static_url(@)]
    ELSE rec

\* Without the copy the conversions are applied to the stored record itself.
stored_without_copy(rec) == with_urls(rec)

\* app.py:615: status_copy = inference_status.copy(); what the conversions,
\* applied to status_copy, leave in the stored record.
stored_after_copy(rec) == rec

check_inference_status_route ==
    /\ http_response' = [route |-> "check_inference_status", code |-> 200,
                         body |-> with_urls(inference_status)]
    /\ inference_status' = stored_after_copy(inference_status)
    /\ UNCHANGED <<csv, req, njobs, task_vars>>
    /\ UNCHANGED <<hc_vars, unit_vars>>

\* ------------------------------------------------ Stage 1: run_tflite
\* inference_controller.py:62-111: model load, capture, writer, CSV header.
run_inference_on_video_open(t) ==
    /\ tflite_pc[t] = "run"
    /\ \E outcome \in {"load_error", "raised", "opened"} :
          CASE outcome = "load_error" ->
                 /\ tflite_result' = [tflite_result EXCEPT ![t] = <<FALSE, TfliteLoadError>>]
                 /\ tflite_pc' = [tflite_pc EXCEPT ![t] = "done"]
                 /\ UNCHANGED <<tflite_exception, csv>>
            [] outcome = "raised" ->
                 /\ tflite_exception' = [tflite_exception EXCEPT ![t] = TfliteRaised]
                 /\ tflite_pc' = [tflite_pc EXCEPT ![t] = "done"]
                 /\ UNCHANGED <<tflite_result, csv>>
            [] outcome = "opened" ->
                 /\ csv' = "header"
                 /\ tflite_pc' = [tflite_pc EXCEPT ![t] = "loop"]
                 /\ UNCHANGED <<tflite_result, tflite_exception>>
    /\ UNCHANGED <<inference_status, req, http_response, njobs, pc,
                   input_video_path, manual_points, homog_pc, homog_result,
                   homog_exception, e, slowmo_video_path, slowmo_calls>>
    /\ UNCHANGED <<hc_vars, unit_vars>>

\* inference_controller.py:122-241: the batch loop appends rows to the CSV.
run_inference_on_video_loop(t) ==
    /\ tflite_pc[t] = "loop"
    /\ \E outcome \in {"rows", "no_full_sequence", "loop_error"} :
          CASE outcome = "rows" ->
                 /\ csv' = "rows"
                 /\ tflite_result' = [tflite_result EXCEPT ![t] =
                        <<TRUE, join(OUTPUT_DIR_INFERENCES,
                             <<prefixed("inferred_", base_filename_of(input_video_path[t]))>>)>>]
            [] outcome = "no_full_sequence" ->
                 /\ csv' = csv
                 /\ tflite_result' = [tflite_result EXCEPT ![t] =
                        <<TRUE, join(OUTPUT_DIR_INFERENCES,
                             <<prefixed("inferred_", base_filename_of(input_video_path[t]))>>)>>]
            [] outcome = "loop_error" ->
                 /\ csv' = csv
                 /\ tflite_result' = [tflite_result EXCEPT ![t] = <<FALSE, TfliteLoopError>>]
    /\ tflite_pc' = [tflite_pc EXCEPT ![t] = "done"]
    /\ UNCHANGED <<inference_status, req, http_response, njobs, pc,
                   input_video_path, manual_points, tflite_exception, homog_pc,
                   homog_result, homog_exception, e, slowmo_video_path,
                   slowmo_calls>>
    /\ UNCHANGED <<hc_vars, unit_vars>>

\* ---------------------------------------------- Stage 2: run_homography
\* Stage 2 started without the join on the Stage-1 thread.
tflite_thread_joined_nowait(t) == TRUE

\* app.py:119: tflite_thread.join() returns once run_tflite has terminated.
tflite_thread_joined(t) == tflite_pc[t] = "done"

\* app.py:119-122
run_homography_join(t) ==
    /\ homog_pc[t] = "join"
    /\ tflite_thread_joined(t)
    /\ homog_pc' = [homog_pc EXCEPT ![t] = "validate"]
    /\ UNCHANGED <<inference_status, csv, req, http_response, njobs, pc,
                   input_video_path, manual_points, tflite_pc, tflite_result,
                   tflite_exception, homog_result, homog_exception, e,
                   slowmo_video_path, slowmo_calls>>
    /\ UNCHANGED <<hc_vars, unit_vars>>

\* run_homography has returned: manual_points, which only it reads, is dead.
run_homography_exit(t) ==
    /\ homog_pc' = [homog_pc EXCEPT ![t] = "done"]
    /\ manual_points' = [manual_points EXCEPT ![t] = FALSE]

\* A validation that lets a table without data rows through.
empty_table_accepted(table) == FALSE

\* app.py:130-132: len(test_df) == 0 for a table that holds the header only.
empty_table(table) == table = "header"

\* app.py:125-135: the validation read of the position-track table.
run_homography_validate(t) ==
    /\ homog_pc[t] = "validate"
    /\ CASE csv = "absent" ->
              /\ homog_exception' = [homog_exception EXCEPT ![t] = CsvNotFound]
              /\ run_homography_exit(t)
         [] csv # "absent" /\ empty_table(csv) ->
              /\ homog_exception' = [homog_exception EXCEPT ![t] = CsvUnreadable]
              /\ run_homography_exit(t)
         [] OTHER ->
              /\ homog_pc' = [homog_pc EXCEPT ![t] = "check"]
              /\ UNCHANGED <<homog_exception, manual_points>>
    /\ UNCHANGED <<inference_status, csv, req, http_response, njobs, pc,
                   input_video_path, tflite_pc, tflite_result,
                   tflite_exception, homog_result, e, slowmo_video_path,
                   slowmo_calls>>
    /\ UNCHANGED <<hc_vars, unit_vars>>

\* homography_controller.py:448-684: what run_homography_check can return.
run_homography_check_results(table, points, base) ==
    LET fail(msg) == <<FALSE, msg, None, None, None>>
        web_dir == basename(OUTPUT_DIR_INFERENCES)
        web_video_path == join(web_dir, <<prefixed("yolo_homog_", base)>>)
        full == join(web_dir, <<rendered(base, "_2d_full.png")>>)
        zoom == join(web_dir, <<rendered(base, "_2d_zoom.png")>>)
        replay == join(web_dir, <<rendered(base, "_replay.mp4")>>)
    IN  IF table # "rows"
        THEN {fail(NoLandingPoint)}
        ELSE {fail(NoLandingPoint), fail(CannotOpenVideo), fail(WriterFailed),
              fail(HomographyRaised)}
             \cup (IF points THEN {}
                   ELSE {fail(YoloModelMissing), fail(AutoHomographyFailed)})
             \cup {<<TRUE, web_video_path, f, z, r>> :
                      f \in {None, full}, z \in {None, zoom}, r \in {None, replay}}

\* app.py:138-148
run_homography_call(t) ==
    /\ homog_pc[t] = "check"
    /\ \E result \in run_homography_check_results(csv, manual_points[t],
                        base_filename_of(input_video_path[t])) :
          homog_result' = [homog_result EXCEPT ![t] = result]
    /\ run_homography_exit(t)
    /\ UNCHANGED <<inference_status, csv, req, http_response, njobs, pc,
                   input_video_path, tflite_pc, tflite_result,
                   tflite_exception, homog_exception, e, slowmo_video_path,
                   slowmo_calls>>
    /\ UNCHANGED <<hc_vars, unit_vars>>

\* -------------------------------------------------- run_inference_task
\* homography_controller.py:258-297: the web path, or None when ffmpeg fails.
create_full_slowmotion_video(output_dir, base_filename) ==
    {join(basename(output_dir), <<prefixed("slowmo_", base_filename)>>), None}

\* A fallback that renders a second time.
fallback_calls_with_retry(calls) == calls + 2

\* app.py:171-175, 217-222, 278-282: one call of create_full_slowmotion_video,
\* inside a try of its own.
fallback_calls(calls) == calls + 1

\* app.py:168-180 and 213-226: the fallback render of the two failure branches.
fallback_render(t, next_pc) ==
    /\ \E result \in create_full_slowmotion_video(OUTPUT_DIR_INFERENCES,
                        base_filename_of(input_video_path[t])) :
          slowmo_video_path' = [slowmo_video_path EXCEPT ![t] = result]
    /\ slowmo_calls' = [slowmo_calls EXCEPT ![t] = fallback_calls(@)]
    /\ pc' = [pc EXCEPT ![t] = next_pc]

\* A handler that goes straight to the Error record.
fallback_in_handler_never(path) == FALSE

\* app.py:276 and 289: the handler renders only when the input file exists.
fallback_in_handler(path) == exists(path)

\* app.py:267-301: the exception handler up to its fallback render.
except_handler(t, exception) ==
    /\ e' = [e EXCEPT ![t] = exception]
    /\ IF fallback_in_handler(filesystem_path_of(input_video_path[t]))
       THEN fallback_render(t, "write_exception_error")
       ELSE /\ pc' = [pc EXCEPT ![t] = "write_exception_error"]
            /\ UNCHANGED <<slowmo_video_path, slowmo_calls>>

\* app.py:91: the in-place write of the message field.
stage1_message(rec) == [rec EXCEPT !.message = MsgStage1]

\* app.py:74-110, 152-153: the input check (and the handler it raises into),
\* the stage message, and the start of the two worker threads.
run_inference_task_begin(t) ==
    /\ pc[t] = "start"
    /\ IF ~exists(filesystem_path_of(input_video_path[t]))
       THEN /\ except_handler(t, InputNotFound)
            /\ UNCHANGED <<inference_status, tflite_pc, homog_pc>>
       ELSE /\ inference_status' = stage1_message(inference_status)
            /\ tflite_pc' = [tflite_pc EXCEPT ![t] = "run"]
            /\ homog_pc' = [homog_pc EXCEPT ![t] = "join"]
            /\ pc' = [pc EXCEPT ![t] = "join"]
            /\ UNCHANGED <<e, slowmo_video_path, slowmo_calls>>
    /\ UNCHANGED <<csv, req, http_response, njobs, input_video_path,
                   manual_points, tflite_result, tflite_exception, homog_result,
                   homog_exception>>
    /\ UNCHANGED <<hc_vars, unit_vars>>

\* A message that reports what Stage-2 returned.
failure_reason_stage2(t) ==
    <<"Homography check: ">>
       \o (IF homog_result[t] # None THEN homog_result[t][2] ELSE None) \o <<". ">>

\* app.py:186, 232, 306: the message before the slow-motion suffix.
failure_reason(t) ==
    CASE pc[t] = "write_tflite_error" ->
           <<"TFLite inference failed: ">> \o tflite_result[t][2] \o <<". ">>
      [] pc[t] = "write_homog_error" ->
           <<"Homography check failed: ">> \o homog_result[t][2] \o <<". ">>
      [] pc[t] = "write_exception_error" -> e[t] \o <<". ">>
      [] OTHER -> None

\* A message that reports the failed render in place of the failure reason.
error_message_render_failure(reason, slowmo) ==
    IF slowmo # None THEN reason \o <<RuntimeFailed, SlowmoSuffix>>
    ELSE <<"Failed to create slow-motion video. ", RuntimeFailed>>

\* app.py:185-188, 231-234, 305-308
error_message(reason, slowmo) ==
    reason \o <<RuntimeFailed>> \o (IF slowmo # None THEN <<SlowmoSuffix>> ELSE <<>>)

\* An Error record made by updating fields of the stored record.
error_record_in_place(reason, slowmo) ==
    [inference_status EXCEPT !.status = "error", !.output_url = slowmo,
                             !.message = error_message(reason, slowmo)]

\* app.py:190-197, 236-243, 310-317
error_record(reason, slowmo) ==
    [status |-> "error", output_url |-> slowmo, output_2d_url |-> None,
     output_2d_zoom_url |-> None, output_replay_url |-> None,
     message |-> error_message(reason, slowmo)]

\* The Complete record built with the result fields shifted by one.
complete_record_shifted(homog, tflite_vid_path) ==
    [status |-> "complete",
     output_url |-> homog[3],
     output_2d_url |-> homog[3], output_2d_zoom_url |-> homog[4],
     output_replay_url |-> homog[5],
     message |-> MsgComplete \o <<RuntimeTotal>>]

\* app.py:253-264
complete_record(homog, tflite_vid_path) ==
    [status |-> "complete",
     output_url |-> IF homog[2] # None THEN homog[2] ELSE tflite_vid_path,
     output_2d_url |-> homog[3], output_2d_zoom_url |-> homog[4],
     output_replay_url |-> homog[5],
     message |-> MsgComplete \o <<RuntimeTotal>>]

\* The thread has returned: its locals are gone.
thread_exit(t) ==
    /\ pc' = [pc EXCEPT ![t] = "done"]
    /\ input_video_path' = [input_video_path EXCEPT ![t] = None]
    /\ manual_points' = [manual_points EXCEPT ![t] = FALSE]
    /\ tflite_pc' = [tflite_pc EXCEPT ![t] = "none"]
    /\ tflite_result' = [tflite_result EXCEPT ![t] = None]
    /\ tflite_exception' = [tflite_exception EXCEPT ![t] = None]
    /\ homog_pc' = [homog_pc EXCEPT ![t] = "none"]
    /\ homog_result' = [homog_result EXCEPT ![t] = None]
    /\ homog_exception' = [homog_exception EXCEPT ![t] = None]
    /\ e' = [e EXCEPT ![t] = None]
    /\ slowmo_video_path' = [slowmo_video_path EXCEPT ![t] = None]
    /\ slowmo_calls' = [slowmo_calls EXCEPT ![t] = 0]

\* The worker threads are joined. The handler reads neither result list
\* again and the Stage-2 failure branch reads only homog_result; the Stage-1
\* failure branch reports tflite_result and still holds what Stage-2 stored.
workers_joined(t, keep_tflite, keep_homog) ==
    /\ tflite_pc' = [tflite_pc EXCEPT ![t] = "none"]
    /\ homog_pc' = [homog_pc EXCEPT ![t] = "none"]
    /\ tflite_result' = [tflite_result EXCEPT ![t] = IF keep_tflite THEN @ ELSE None]
    /\ homog_result' = [homog_result EXCEPT ![t] = IF keep_homog THEN @ ELSE None]
    /\ tflite_exception' = [tflite_exception EXCEPT ![t] = None]
    /\ homog_exception' = [homog_exception EXCEPT ![t] = None]

\* app.py:156-265: both joins, the branch taken on the two results, and what
\* the branch does before it writes a record: the fallback render of a failure
\* branch or of the exception handler; the success branch writes the Complete
\* record, which replaces the stored one, and returns.
run_inference_task_join(t) ==
    /\ pc[t] = "join"
    /\ tflite_pc[t] = "done"
    /\ homog_pc[t] = "done"
    /\ IF tflite_exception[t] # None
       THEN /\ except_handler(t, tflite_exception[t])
            /\ workers_joined(t, FALSE, FALSE)
            /\ UNCHANGED <<inference_status, input_video_path, manual_points>>
       ELSE IF ~tflite_result[t][1]
       THEN /\ fallback_render(t, "write_tflite_error")
            /\ workers_joined(t, TRUE, TRUE)
            /\ UNCHANGED <<inference_status, input_video_path, manual_points, e>>
       ELSE IF homog_exception[t] # None
       THEN /\ except_handler(t, homog_exception[t])
            /\ workers_joined(t, FALSE, FALSE)
            /\ UNCHANGED <<inference_status, input_video_path, manual_points>>
       ELSE IF ~homog_result[t][1]
       THEN /\ fallback_render(t, "write_homog_error")
            /\ workers_joined(t, FALSE, TRUE)
            /\ UNCHANGED <<inference_status, input_video_path, manual_points, e>>
       ELSE /\ inference_status' = complete_record(homog_result[t], tflite_result[t][2])
            /\ thread_exit(t)
    /\ UNCHANGED <<csv, req, http_response, njobs>>
    /\ UNCHANGED <<hc_vars, unit_vars>>

\* app.py:182-198, 228-244, 303-317: the Error record replaces the stored one.
run_inference_task_error(t) ==
    /\ pc[t] \in {"write_tflite_error", "write_homog_error", "write_exception_error"}
    /\ inference_status' = error_record(failure_reason(t), slowmo_video_path[t])
    /\ thread_exit(t)
    /\ UNCHANGED <<csv, req, http_response, njobs>>
    /\ UNCHANGED <<hc_vars, unit_vars>>

\* ------------------------------------- get_landing_point (lines 63-123)
\* numpy NaN; a number v is <<v>>.
NaN == <<>>

\* homography_controller.py:90: the direction-change threshold, in degrees.
DirectionChangeThreshold == 30
\* homography_controller.py:99: the largest index gap inside one cluster.
ClusterGap == 30

MaxRows == 3
MaxFrames == 64

\* Row indices at which the table may hold a row of interest; every other row
\* of the MaxFrames rows has a Direction Change that is not above the
\* threshold and is never read.
CandidateFrames == {1, 26, 31, 32, 41, 62}
Coordinates == {<<2, 2>>, <<7, 2>>}
DirectionChanges == {NaN, <<30>>, <<31>>}

\* inference_controller.py:49-52, 202: a row of the CSV; an invisible sample
\* is written as 0,0,0.
csv_rows ==
    {[Visibility |-> 1, X |-> <<c[1]>>, Y |-> <<c[2]>>] : c \in Coordinates}
       \cup {[Visibility |-> 0, X |-> <<0>>, Y |-> <<0>>]}

\* homography_controller.py:71: X and Y of invisible samples become NaN.
mask_invisible(row) ==
    IF row.Visibility = 0 THEN [row EXCEPT !.X = NaN, !.Y = NaN] ELSE row

\* homography_controller.py:69-87: df_visible with its Direction Change
\* column; the angle of lines 74-86 is taken as given.
df_visible_rows ==
    {[Visibility |-> r.Visibility, X |-> r.X, Y |-> r.Y, DirectionChange |-> a] :
        r \in {mask_invisible(row) : row \in csv_rows}, a \in DirectionChanges}

Tables ==
    UNION {[F -> df_visible_rows] :
             F \in {G \in SUBSET CandidateFrames : Cardinality(G) <= MaxRows}}

\* The comparison with the threshold included.
exceeds_threshold_inclusive(angle) ==
    angle # NaN /\ angle[1] >= DirectionChangeThreshold

\* homography_controller.py:90: NaN > 30 is False.
exceeds_threshold(angle) == angle # NaN /\ angle[1] > DirectionChangeThreshold

\* .index.tolist() of a selection: its indices in increasing order.
RECURSIVE index_tolist(_)
index_tolist(S) ==
    IF S = {} THEN <<>>
    ELSE LET first == CHOOSE i \in S : \A j \in S : i <= j
         IN  <<first>> \o index_tolist(S \ {first})

hits_of(df) ==
    index_tolist({i \in DOMAIN df : exceeds_threshold(df[i].DirectionChange)})

\* A gap equal to the threshold starts a new cluster.
same_cluster_strict(previous, hit) == hit - previous < ClusterGap

\* homography_controller.py:99
same_cluster(previous, hit) == hit - previous <= ClusterGap

\* homography_controller.py:96-104: the loop from position i of hits.
RECURSIVE cluster_loop(_, _, _, _)
cluster_loop(hits, i, clusters, current) ==
    IF i > Len(hits) THEN Append(clusters, current)
    ELSE IF same_cluster(hits[i - 1], hits[i])
         THEN cluster_loop(hits, i + 1, clusters, Append(current, hits[i]))
         ELSE cluster_loop(hits, i + 1, Append(clusters, current), <<hits[i]>>)

clusters_of(hits) == cluster_loop(hits, 2, <<>>, <<hits[1]>>)

\* The candidate cluster taken from the front of the list.
candidate_cluster_first(clusters) == clusters[1]

\* homography_controller.py:106: last_cluster = clusters[-1]
candidate_cluster(clusters) == clusters[Len(clusters)]

\* homography_controller.py:110
valid_sample(row) == row.X # NaN /\ row.Y # NaN

\* A scan that walks the cluster from its last member down (k counts from
\* the end).
RECURSIVE scan_cluster_backwards(_, _, _)
scan_cluster_backwards(df, cluster, k) ==
    IF k > Len(cluster) THEN None
    ELSE LET idx == cluster[Len(cluster) + 1 - k]
         IN  IF valid_sample(df[idx])
             THEN << <<df[idx].X[1], df[idx].Y[1]>>, idx >>
             ELSE scan_cluster_backwards(df, cluster, k + 1)

\* homography_controller.py:109-114: <<landing_point, landing_frame>> of the
\* first member from position k on with a valid sample, or None.
RECURSIVE scan_cluster(_, _, _)
scan_cluster(df, cluster, k) ==
    IF k > Len(cluster) THEN None
    ELSE IF valid_sample(df[cluster[k]])
         THEN << <<df[cluster[k]].X[1], df[cluster[k]].Y[1]>>, cluster[k] >>
         ELSE scan_cluster(df, cluster, k + 1)

\* homography_controller.py:89-120
get_landing_point(df) ==
    LET hits == hits_of(df)
    IN  IF hits = <<>> THEN <<None, None, None>>
        ELSE LET found == scan_cluster(df, candidate_cluster(clusters_of(hits)), 1)
             IN  IF found = None THEN <<None, None, None>>
                 ELSE <<found[1], found[2], MaxFrames>>

\* ------------------------------- homography and IN-zone (lines 44-60, 477-557)
MaxBoxes == 5

\* r.boxes of one frame: class id and confidence (in tenths, at or above
\* CONFIDENCE_THRESHOLD); the centre of box i is identified with i.
DetectionLists ==
    UNION {[1..n -> [cls : {2, 3}, conf : {3, 9}]] : n \in 0..MaxBoxes}

\* cap.get(CAP_PROP_FPS), in tenths: 0 (unknown), 0.5 and 1 frame per second.
FrameRates == {0, 5, 10}

\* The window rounded up.
search_window_ceiling(rate) == (rate * 3 + 9) \div 10

\* homography_controller.py:490: int(fps * 3)
search_window(rate) == (rate * 3) \div 10

\* A sort without reverse=True.
sorts_before_ascending(conf_a, conf_b) == conf_a < conf_b

\* homography_controller.py:505-506: sort(reverse=True) on the confidence.
sorts_before(conf_a, conf_b) == conf_a > conf_b

\* The (stable) sorted list of the box indices in S.
RECURSIVE sorted_by_conf(_, _)
sorted_by_conf(bx, S) ==
    IF S = {} THEN <<>>
    ELSE LET first == CHOOSE i \in S : \A j \in S \ {i} :
                         \/ sorts_before(bx[i].conf, bx[j].conf)
                         \/ ~sorts_before(bx[j].conf, bx[i].conf) /\ i < j
         IN  <<first>> \o sorted_by_conf(bx, S \ {first})

\* homography_controller.py:503-506: R1 (class 2) and R3 (class 3).
detections_of(bx, cid) == sorted_by_conf(bx, {i \in DOMAIN bx : bx[i].cls = cid})

\* homography_controller.py:497, 508
enough_detections(bx) ==
    /\ Len(bx) > 0
    /\ Len(detections_of(bx, 2)) >= 2
    /\ Len(detections_of(bx, 3)) >= 2

\* homography_controller.py:509
detected_pts_of(bx) ==
    <<detections_of(bx, 2)[1], detections_of(bx, 2)[2],
      detections_of(bx, 3)[1], detections_of(bx, 3)[2]>>

\* A mode test that always takes the automatic branch.
use_manual_points_never(points) == FALSE

\* homography_controller.py:478: if manual_points
use_manual_points(points) == points

\* int() of a quotient: truncation towards zero.
int_div(a, b) ==
    LET abs(x) == IF x < 0 THEN -x ELSE x
    IN  IF (a >= 0) = (b > 0) THEN abs(a) \div abs(b) ELSE -(abs(a) \div abs(b))

\* homography_controller.py:44-53
line_intersection(p1, p2, p3, p4) ==
    LET x1 == p1[1]  y1 == p1[2]  x2 == p2[1]  y2 == p2[2]
        x3 == p3[1]  y3 == p3[2]  x4 == p4[1]  y4 == p4[2]
        denom == (x1 - x2) * (y3 - y4) - (y1 - y2) * (x3 - x4)
    IN  IF denom = 0 THEN None
        ELSE <<int_div((x1*y2 - y1*x2) * (x3 - x4) - (x1 - x2) * (x3*y4 - y3*x4), denom),
               int_div((x1*y2 - y1*x2) * (y3 - y4) - (y1 - y2) * (x3*y4 - y3*x4), denom)>>

\* homography_controller.py:543-547: the four template lines of the zone as
\* the homography may map them (a mapped line is <<p1, p2>>).
MappedLines ==
    [baseline_bottom : {<< <<0, 4>>, <<4, 4>> >>},
     net : {<< <<0, 0>>, <<4, 0>> >>, << <<0, 0>>, <<4, 1>> >>},
     left_inner_line : {<< <<1, 4>>, <<1, 0>> >>, << <<0, 2>>, <<4, 2>> >>},
     right_inner_line : {<< <<3, 4>>, <<3, 0>> >>, << <<0, 3>>, <<4, 4>> >>}]

\* homography_controller.py:549-557
intersection_pts_of(mapped_lines) ==
    LET i1 == line_intersection(mapped_lines.baseline_bottom[1], mapped_lines.baseline_bottom[2],
                                mapped_lines.left_inner_line[1], mapped_lines.left_inner_line[2])
        i2 == line_intersection(mapped_lines.baseline_bottom[1], mapped_lines.baseline_bottom[2],
                                mapped_lines.right_inner_line[1], mapped_lines.right_inner_line[2])
        i3 == line_intersection(mapped_lines.net[1], mapped_lines.net[2],
                                mapped_lines.left_inner_line[1], mapped_lines.left_inner_line[2])
        i4 == line_intersection(mapped_lines.net[1], mapped_lines.net[2],
                                mapped_lines.right_inner_line[1], mapped_lines.right_inner_line[2])
    IN  IF i1 # None /\ i2 # None /\ i3 # None /\ i4 # None
        THEN <<i1, i2, i4, i3>> ELSE None

\* cv2.pointPolygonTest(poly, point, False) on integer input: the edge loop
\* from vertex i with the crossings counted so far; 1 inside, 0 on the
\* boundary, -1 outside.
RECURSIVE pointPolygonTest(_, _, _, _)
pointPolygonTest(cnt, ip, i, counter) ==
    IF i > Len(cnt) THEN (IF counter % 2 = 0 THEN -1 ELSE 1)
    ELSE LET v0 == cnt[IF i = 1 THEN Len(cnt) ELSE i - 1]
             v == cnt[i]
             apart == \/ v0[2] <= ip[2] /\ v[2] <= ip[2]
                      \/ v0[2] > ip[2] /\ v[2] > ip[2]
                      \/ v0[1] < ip[1] /\ v[1] < ip[1]
             on_edge == /\ ip[2] = v[2]
                        /\ \/ ip[1] = v[1]
                           \/ /\ ip[2] = v0[2]
                              /\ \/ v0[1] <= ip[1] /\ ip[1] <= v[1]
                                 \/ v[1] <= ip[1] /\ ip[1] <= v0[1]
             dist == (ip[2] - v0[2]) * (v[1] - v0[1]) - (ip[1] - v0[1]) * (v[2] - v0[2])
             side == IF v[2] < v0[2] THEN -dist ELSE dist
         IN  IF apart
             THEN (IF on_edge THEN 0 ELSE pointPolygonTest(cnt, ip, i + 1, counter))
             ELSE IF dist = 0 THEN 0
             ELSE pointPolygonTest(cnt, ip, i + 1, counter + (IF side > 0 THEN 1 ELSE 0))

\* return result > 0: the boundary left out.
point_in_polygon_strict(point, polygon) ==
    pointPolygonTest(polygon, point, 1, 0) > 0

\* homography_controller.py:56-60
point_in_polygon(point, polygon) == pointPolygonTest(polygon, point, 1, 0) >= 0

\* ------------------------------ run_homography_check, step by step
\* What a step of run_homography_check leaves alone in the calling job.
job_unchanged ==
    UNCHANGED <<inference_status, csv, req, http_response, njobs, pc,
                input_video_path, tflite_pc, tflite_result, tflite_exception,
                homog_exception, e, slowmo_video_path, slowmo_calls,
                unit_vars>>

\* The call made at app.py:138 by the run_homography thread of job t.
hc_called_by(t) == pc[t] = "join" /\ homog_pc[t] = "check" /\ hc_pc # "none"

\* The locals are gone when the call returns.
hc_locals_reset ==
    /\ df_visible' = <<>>
    /\ landing' = None
    /\ fps' = 0
    /\ model' = FALSE
    /\ scanned' = 0
    /\ boxes' = None
    /\ detected_pts' = None
    /\ H' = None
    /\ H_inv' = None
    /\ findHomography_calls' = 0
    /\ intersection_pts' = None
    /\ frame_idx' = 0
    /\ show_result' = FALSE
    /\ in_zone' = FALSE
    /\ point_in_polygon_calls' = 0
    /\ web_paths' = <<None, None, None>>
    /\ render_log' = <<>>

\* A failure return of run_homography_check.
hc_failure(message) == <<FALSE, message, None, None, None>>

\* A return statement, and app.py:144-148 storing what it returned.
hc_return(t, result, cap_after) ==
    /\ homog_result' = [homog_result EXCEPT ![t] = result]
    /\ run_homography_exit(t)
    /\ hc_pc' = "returned"
    /\ cap' = cap_after
    /\ hc_locals_reset
    /\ job_unchanged

\* homography_controller.py:677-684: the handler of the outer try.
hc_except(t) ==
    hc_return(t, hc_failure(HomographyRaised),
              IF cap = "open" THEN "released" ELSE cap)

\* homography_controller.py:462
hc_get_landing_point(t) ==
    /\ hc_called_by(t)
    /\ hc_pc = "start"
    /\ landing' = get_landing_point(df_visible)
    /\ hc_pc' = "landed"
    /\ job_unchanged
    /\ UNCHANGED <<homog_result, homog_pc, manual_points, df_visible, cap, fps,
                   model, scanned, boxes, detected_pts, H, H_inv,
                   findHomography_calls, intersection_pts, frame_idx,
                   show_result, in_zone, point_in_polygon_calls, web_paths, render_log>>

\* homography_controller.py:463-475
hc_open(t) ==
    /\ hc_called_by(t)
    /\ hc_pc = "landed"
    /\ IF landing[1] = None
       THEN hc_return(t, hc_failure(NoLandingPoint), cap)
       ELSE \E isOpened \in BOOLEAN, rate \in FrameRates :
               IF ~isOpened
               THEN hc_return(t, hc_failure(CannotOpenVideo), cap)
               ELSE /\ cap' = "open"
                    /\ fps' = rate
                    /\ df_visible' = <<>>
                    /\ hc_pc' = "homography"
                    /\ job_unchanged
                    /\ UNCHANGED <<homog_result, homog_pc, manual_points,
                                   landing, model, scanned, boxes, detected_pts,
                                   H, H_inv, findHomography_calls,
                                   intersection_pts, frame_idx, show_result,
                                   in_zone, point_in_polygon_calls, web_paths, render_log>>

\* homography_controller.py:481-482, 510-511: findHomography and the inverse;
\* np.linalg.inv raises when findHomography found no matrix.
findHomography(t, points, next_scanned, found) ==
    IF ~found THEN hc_except(t)
    ELSE /\ detected_pts' = points
         /\ H' = <<"H">>
         /\ H_inv' = <<"H_inv">>
         /\ findHomography_calls' = findHomography_calls + 1
         /\ scanned' = next_scanned
         /\ hc_pc' = "writer"
         /\ job_unchanged
         /\ UNCHANGED <<homog_result, homog_pc, manual_points, df_visible,
                        landing, cap, fps, model, intersection_pts, frame_idx,
                        show_result, in_zone, point_in_polygon_calls, web_paths, render_log>>

\* homography_controller.py:478-482: the four supplied points.
hc_manual_homography(t) ==
    /\ hc_called_by(t)
    /\ hc_pc = "homography"
    /\ use_manual_points(manual_points[t])
    /\ \E found \in BOOLEAN :
          /\ findHomography(t, <<"manual_points">>, scanned, found)
          /\ found => boxes' = boxes

\* homography_controller.py:484-487
hc_load_model(t) ==
    /\ hc_called_by(t)
    /\ hc_pc = "homography"
    /\ ~use_manual_points(manual_points[t])
    /\ \E model_exists \in BOOLEAN :
          IF ~model_exists
          THEN hc_return(t, hc_failure(YoloModelMissing), cap)
          ELSE /\ model' = TRUE
               /\ hc_pc' = "scan"
               /\ job_unchanged
               /\ UNCHANGED <<homog_result, homog_pc, manual_points, df_visible,
                              landing, cap, fps, scanned, boxes, detected_pts,
                              H, H_inv, findHomography_calls, intersection_pts,
                              frame_idx, show_result, in_zone,
                              point_in_polygon_calls, web_paths, render_log>>

\* homography_controller.py:490-494: one pass of the search loop reads a frame
\* and runs the detector on it. A failed read leaves the loop with H still
\* None (lines 517-519).
hc_scan_read(t) ==
    /\ hc_called_by(t)
    /\ hc_pc = "scan"
    /\ scanned < search_window(fps)
    /\ \E outcome \in {"no_frame", "raised", "results"} :
          CASE outcome = "no_frame" ->
                 hc_return(t, hc_failure(AutoHomographyFailed), "released")
            [] outcome = "raised" -> hc_except(t)
            [] outcome = "results" ->
                 /\ \E bx \in DetectionLists : boxes' = bx
                 /\ scanned' = scanned + 1
                 /\ hc_pc' = "detected"
                 /\ job_unchanged
                 /\ UNCHANGED <<homog_result, homog_pc, manual_points,
                                df_visible, landing, cap, fps, model,
                                detected_pts, H, H_inv, findHomography_calls,
                                intersection_pts, frame_idx, show_result,
                                in_zone, point_in_polygon_calls, web_paths, render_log>>

\* homography_controller.py:495-515: the detections of the frame just read.
hc_scan_detections(t) ==
    /\ hc_called_by(t)
    /\ hc_pc = "detected"
    /\ IF enough_detections(boxes)
       THEN \E found \in BOOLEAN :
               /\ findHomography(t, detected_pts_of(boxes), scanned, found)
               /\ found => boxes' = boxes
       ELSE /\ boxes' = None
            /\ hc_pc' = "scan"
            /\ job_unchanged
            /\ UNCHANGED <<homog_result, homog_pc, manual_points, df_visible,
                           landing, cap, fps, model, scanned, detected_pts, H,
                           H_inv, findHomography_calls, intersection_pts,
                           frame_idx, show_result, in_zone,
                           point_in_polygon_calls, web_paths, render_log>>

\* homography_controller.py:490, 517-519: the window is used up.
hc_scan_exhausted(t) ==
    /\ hc_called_by(t)
    /\ hc_pc = "scan"
    /\ scanned >= search_window(fps)
    /\ hc_return(t, hc_failure(AutoHomographyFailed), "released")

\* homography_controller.py:522-585: rewind, the writer, the mapped lines and
\* the IN-zone polygon. detected_pts, boxes and fps are not read again.
hc_zone(t) ==
    /\ hc_called_by(t)
    /\ hc_pc = "writer"
    /\ \E writer_opened \in BOOLEAN, mapped_lines \in MappedLines :
          IF ~writer_opened
          THEN hc_return(t, hc_failure(WriterFailed), "released")
          ELSE /\ intersection_pts' = intersection_pts_of(mapped_lines)
               /\ frame_idx' = 0
               /\ show_result' = FALSE
               /\ in_zone' = FALSE
               /\ boxes' = None
               /\ detected_pts' = None
               /\ fps' = 0
               /\ hc_pc' = "loop"
               /\ job_unchanged
               /\ UNCHANGED <<homog_result, homog_pc, manual_points, df_visible,
                              landing, cap, model, scanned, H, H_inv,
                              findHomography_calls, point_in_polygon_calls,
                              web_paths, render_log>>

\* homography_controller.py:613-621: the three render functions in call order
\* and the suffix of the file each one writes (lines 164, 219, 322).
RenderCalls ==
    <<"generate_2d_illustration_full", "generate_2d_illustration_zoom",
      "create_slow_zoom_replay">>
RenderSuffix == <<"_2d_full.png", "_2d_zoom.png", "_replay.mp4">>

\* What render i returns: its web path, or None from its exception handler
\* (lines 173-175, 228-230; for the replay lines 371-377, once ffmpeg and the
\* OpenCV fallback have both failed).
render(i, ok, base) ==
    IF ok THEN join(basename(OUTPUT_DIR_INFERENCES), <<rendered(base, RenderSuffix[i])>>)
    ELSE None

\* The renders stopping at the first one that fails.
renders_until_failure(ok) ==
    IF ~ok[1] THEN <<1>> ELSE IF ~ok[2] THEN <<1, 2>> ELSE <<1, 2, 3>>

\* homography_controller.py:613-621: the renders called, given which of them
\* succeed; three plain assignments in sequence.
renders_called(ok) == <<1, 2, 3>>

\* homography_controller.py:587-637: one frame read and written. np.array in
\* point_in_polygon raises on a polygon that is None.
hc_frame(t) ==
    /\ hc_called_by(t)
    /\ hc_pc = "loop"
    /\ frame_idx < MaxFrames
    /\ IF frame_idx >= landing[2] /\ frame_idx = landing[2] /\ ~show_result
       THEN IF intersection_pts = None
            THEN hc_except(t)
            ELSE /\ in_zone' = point_in_polygon(landing[1], intersection_pts)
                 /\ show_result' = TRUE
                 /\ point_in_polygon_calls' = point_in_polygon_calls + 1
                 /\ IF H_inv # None
                    THEN \E ok \in [1..3 -> BOOLEAN] :
                            LET calls == renders_called(ok)
                                base == base_filename_of(input_video_path[t])
                            IN  /\ render_log' = [k \in 1..Len(calls) |->
                                                    <<RenderCalls[calls[k]], ok[calls[k]]>>]
                                /\ web_paths' = [i \in 1..3 |->
                                       IF \E k \in 1..Len(calls) : calls[k] = i
                                       THEN render(i, ok[i], base) ELSE None]
                    ELSE UNCHANGED <<web_paths, render_log>>
                 /\ frame_idx' = frame_idx + 1
                 /\ job_unchanged
                 /\ UNCHANGED <<homog_result, homog_pc, manual_points, hc_pc,
                                df_visible, landing, cap, fps, model, scanned,
                                boxes, detected_pts, H, H_inv,
                                findHomography_calls, intersection_pts>>
       ELSE /\ frame_idx' = frame_idx + 1
            /\ job_unchanged
            /\ UNCHANGED <<homog_result, homog_pc, manual_points, hc_pc,
                           df_visible, landing, cap, fps, model, scanned, boxes,
                           detected_pts, H, H_inv, findHomography_calls,
                           intersection_pts, show_result, in_zone,
                           point_in_polygon_calls, web_paths, render_log>>

\* homography_controller.py:588-591, 639-675: the read that yields no frame
\* ends the loop; the re-encode succeeds, fails with CalledProcessError (the
\* file is returned anyway) or raises something else.
hc_finish(t) ==
    /\ hc_called_by(t)
    /\ hc_pc = "loop"
    /\ \E raised \in BOOLEAN :
          IF raised THEN hc_except(t)
          ELSE hc_return(t,
                  <<TRUE,
                    join(basename(OUTPUT_DIR_INFERENCES),
                         <<prefixed("yolo_homog_", base_filename_of(input_video_path[t]))>>),
                    web_paths[1], web_paths[2], web_paths[3]>>,
                  "released")

\* ------------------------------------------------------- specification
Next ==
    \/ \E r \in RequestThreads : run_inference_route_reject(r)
    \/ \E r \in RequestThreads : run_inference_route_check(r)
    \/ \E r \in RequestThreads : run_inference_route_no_input(r)
    \/ \E r \in RequestThreads, input_path \in InputPaths, points \in BOOLEAN :
          run_inference_route_start(r, input_path, points)
    \/ check_inference_status_route
    \/ \E t \in Jobs : run_inference_task_begin(t)
    \/ \E t \in Jobs : run_inference_on_video_open(t)
    \/ \E t \in Jobs : run_inference_on_video_loop(t)
    \/ \E t \in Jobs : run_homography_join(t)
    \/ \E t \in Jobs : run_homography_validate(t)
    \/ \E t \in Jobs : run_homography_call(t)
    \/ \E t \in Jobs : run_inference_task_join(t)
    \/ \E t \in Jobs : run_inference_task_error(t)

Spec == Init /\ [][Next]_vars

\* Job 1 was accepted for the uploaded clip, its run_tflite thread has written
\* the table and returned, and its run_homography thread is at app.py:138,
\* about to call run_homography_check on a table of Tables.
InitHomography ==
    /\ inference_status = stage1_message(RunningRecord)
    /\ csv = "rows"
    /\ req = [r \in RequestThreads |-> "idle"]
    /\ http_response = [route |-> "run_inference", code |-> 200,
                        body |-> <<"Inference process started.">>]
    /\ njobs = 1
    /\ pc = [t \in Jobs |-> IF t = 1 THEN "join" ELSE "unborn"]
    /\ input_video_path = [t \in Jobs |-> IF t = 1 THEN ClipInput ELSE None]
    /\ manual_points \in {[t \in Jobs |-> t = 1 /\ points] : points \in BOOLEAN}
    /\ tflite_pc = [t \in Jobs |-> IF t = 1 THEN "done" ELSE "none"]
    /\ tflite_result = [t \in Jobs |->
          IF t = 1 THEN <<TRUE, join(OUTPUT_DIR_INFERENCES, <<prefixed("inferred_", "clip.mp4")>>)>>
          ELSE None]
    /\ tflite_exception = [t \in Jobs |-> None]
    /\ homog_pc = [t \in Jobs |-> IF t = 1 THEN "check" ELSE "none"]
    /\ homog_result = [t \in Jobs |-> None]
    /\ homog_exception = [t \in Jobs |-> None]
    /\ e = [t \in Jobs |-> None]
    /\ slowmo_video_path = [t \in Jobs |-> None]
    /\ slowmo_calls = [t \in Jobs |-> 0]
    /\ hc_pc = "start"
    /\ cap = "none"
    /\ df_visible \in Tables
    /\ landing = None
    /\ fps = 0
    /\ model = FALSE
    /\ scanned = 0
    /\ boxes = None
    /\ detected_pts = None
    /\ H = None
    /\ H_inv = None
    /\ findHomography_calls = 0
    /\ intersection_pts = None
    /\ frame_idx = 0
    /\ show_result = FALSE
    /\ in_zone = FALSE
    /\ point_in_polygon_calls = 0
    /\ web_paths = <<None, None, None>>
    /\ render_log = <<>>
    /\ units_not_followed

NextHomography ==
    \/ \E t \in Jobs : hc_get_landing_point(t)
    \/ \E t \in Jobs : hc_open(t)
    \/ \E t \in Jobs : hc_manual_homography(t)
    \/ \E t \in Jobs : hc_load_model(t)
    \/ \E t \in Jobs : hc_scan_read(t)
    \/ \E t \in Jobs : hc_scan_detections(t)
    \/ \E t \in Jobs : hc_scan_exhausted(t)
    \/ \E t \in Jobs : hc_zone(t)
    \/ \E t \in Jobs : hc_frame(t)
    \/ \E t \in Jobs : hc_finish(t)
    \/ \E t \in Jobs : run_inference_task_join(t)
    \/ \E t \in Jobs : run_inference_task_error(t)

HomographySpec == InitHomography /\ [][NextHomography]_vars

\* ------------------------------------------- point_in_polygon on its own
\* Vertices and points are drawn from the grid 0..MaxCoord x 0..MaxCoord.
MaxCoord == 2
GridPoints == (0..MaxCoord) \X (0..MaxCoord)

\* polygon: a list of four (x, y) tuples, in any order and position.
Quadrilaterals ==
    {<<a, b, c, d>> : a \in GridPoints, b \in GridPoints,
                      c \in GridPoints, d \in GridPoints}

\* A caller holding a point and a polygon calls point_in_polygon.
call_point_in_polygon ==
    /\ pip_polygon # None
    /\ pip_result = None
    /\ pip_result' = <<point_in_polygon(pip_point, pip_polygon)>>
    /\ UNCHANGED <<pip_polygon, pip_point>>
    /\ UNCHANGED <<inference_status, csv, req, http_response, njobs, task_vars,
                   hc_vars, loop_vars, cam_vars>>

InitPolygon ==
    /\ no_job_yet
    /\ hc_not_followed
    /\ loop_not_followed
    /\ camera_not_followed
    /\ pip_polygon \in Quadrilaterals
    /\ pip_point \in GridPoints
    /\ pip_result = None

NextPolygon == call_point_in_polygon

PolygonSpec == InitPolygon /\ [][NextPolygon]_vars

\* ------------------------- the batch loop of run_inference_on_video
SEQ_LEN == 8
BATCH_SIZE == 8
image_num_frame == SEQ_LEN + 1

\* Frames the input video yields at most.
MaxVideoFrames == 150

\* The frame index restarting at 0 in every batch.
frame_idx_in_batch(count, frame_idx_in_queue) == frame_idx_in_queue

\* inference_controller.py:177, 188
frame_idx_global(count, frame_idx_in_queue) == count + frame_idx_in_queue

\* inference_controller.py:172-189, 198-209: the rows of one batch in
\* frame_order: per sequence b the SEQ_LEN predicted frames, then the last
\* frame, which has no prediction. Visibility, X and Y of a predicted frame
\* are whatever the heat map gives and are not kept.
batch_lines(count, num_full_sequences) ==
    [k \in 1..(num_full_sequences * image_num_frame) |->
        LET b == (k - 1) \div image_num_frame
            f == (k - 1) % image_num_frame
        IN  IF f < SEQ_LEN
            THEN <<frame_idx_global(count, b * image_num_frame + f), FALSE>>
            ELSE <<frame_idx_global(count, b * image_num_frame + SEQ_LEN), TRUE>>]

loop_others_unchanged ==
    UNCHANGED <<inference_status, csv, req, http_response, njobs, task_vars,
                hc_vars, pip_vars, cam_vars>>

\* inference_controller.py:231-241 and 223-229
loop_return(result) ==
    /\ loop_result' = result
    /\ loop_pc' = "returned"
    /\ frame_queue' = 0

\* inference_controller.py:126-133: up to image_num_frame * BATCH_SIZE frames
\* are read; the first read that yields none ends the video.
loop_read ==
    /\ loop_pc = "read"
    /\ IF ~video_ended
       THEN \E n \in 0..(image_num_frame * BATCH_SIZE) :
               /\ frames_read + n <= MaxVideoFrames
               /\ frame_queue' = n
               /\ frames_read' = frames_read + n
               /\ video_ended' = (n < image_num_frame * BATCH_SIZE)
       ELSE /\ frame_queue' = 0
            /\ UNCHANGED <<frames_read, video_ended>>
    /\ loop_pc' = "process"
    /\ UNCHANGED <<frame_count, csv_lines, loop_result>>
    /\ loop_others_unchanged

\* inference_controller.py:135-229: the rest of the iteration; anything
\* raised between the reads and the CSV write is caught at line 223.
loop_process ==
    /\ loop_pc = "process"
    /\ LET num_full_sequences == frame_queue \div image_num_frame
           frames_to_process_count == num_full_sequences * image_num_frame
           success == <<TRUE, join(OUTPUT_DIR_INFERENCES, <<prefixed("inferred_", "clip.mp4")>>)>>
       IN  IF frame_queue = 0 \/ num_full_sequences = 0
           THEN /\ loop_return(success)
                /\ UNCHANGED <<video_ended, frame_count, csv_lines, frames_read>>
           ELSE \E raised \in BOOLEAN :
                   IF raised
                   THEN /\ loop_return(<<FALSE, TfliteLoopError>>)
                        /\ UNCHANGED <<video_ended, frame_count, csv_lines, frames_read>>
                   ELSE /\ csv_lines' = csv_lines \o batch_lines(frame_count, num_full_sequences)
                        /\ frame_count' = frame_count + frames_to_process_count
                        /\ IF video_ended
                           THEN loop_return(success)
                           ELSE /\ loop_pc' = "read"
                                /\ frame_queue' = 0
                                /\ UNCHANGED loop_result
                        /\ UNCHANGED <<video_ended, frames_read>>
    /\ loop_others_unchanged

\* inference_controller.py:102-122: the header is written, nothing is read.
InitLoop ==
    /\ no_job_yet
    /\ hc_not_followed
    /\ pip_not_followed
    /\ camera_not_followed
    /\ loop_pc = "read"
    /\ video_ended = FALSE
    /\ frame_queue = 0
    /\ frame_count = 0
    /\ csv_lines = <<>>
    /\ frames_read = 0
    /\ loop_result = None

NextLoop == loop_read \/ loop_process

LoopSpec == InitLoop /\ [][NextLoop]_vars

\* ------------------------------------------------ camera_controller.py
\* Recordings started at most.
MaxRecordings == 3

\* The file paths the routes pass to start_recording and capture_image.
Filepaths ==
    {<<"static", "recordings", "recording_1.mp4">>,
     <<"static", "recordings", "recording_2.mp4">>}

\* returned messages
RecordingIsActive == <<"Recording is currently active.">>
CameraNotReady == <<"Camera is not ready.">>
ImageCaptured == <<"Image captured successfully.">>
CaptureFailed == <<"Failed to capture image: {e}">>
AlreadyRecording == <<"A recording is already in progress.">>
RecordingStarted == <<"Video recording started.">>
StartFailed == <<"Failed to start recording: {e}">>
NoActiveRecording == <<"No active recording to stop.">>
RecordingStopped == <<"Video recording stopped.">>

cam_others_unchanged ==
    UNCHANGED <<inference_status, csv, req, http_response, njobs, task_vars,
                hc_vars, pip_vars, loop_vars>>

\* A call that returns at once: the caller is idle again.
cam_returns(c, result) ==
    /\ cam_return' = [cam_return EXCEPT ![c] = result]
    /\ UNCHANGED <<cam_pc, held>>

\* A test of the flag that never finds a recording.
recording_in_progress_never(active) == FALSE

\* camera_controller.py:66, 124: `if recording_active:` under the lock.
recording_in_progress(active) == active

\* camera_controller.py:63-88, the whole call under the lock.
capture_image(c, filepath) ==
    /\ cam_pc[c] = "idle"
    /\ IF recording_in_progress(recording_active)
       THEN cam_returns(c, <<FALSE, RecordingIsActive>>)
       ELSE IF ~picam_started
       THEN cam_returns(c, <<FALSE, CameraNotReady>>)
       ELSE \E raised \in BOOLEAN :
               cam_returns(c, IF raised THEN <<FALSE, CaptureFailed>>
                              ELSE <<TRUE, ImageCaptured>>)
    /\ UNCHANGED <<picam_started, recording_active, recording_thread,
                   stop_recording_event, ffmpeg_process, output_path,
                   threads_alive, processes_running, nrecordings>>
    /\ cam_others_unchanged

\* camera_controller.py:118-177, the whole call under the lock. output_path is
\* assigned before Popen, which may raise.
start_recording(c, filepath) ==
    /\ cam_pc[c] = "idle"
    /\ IF recording_in_progress(recording_active)
       THEN /\ cam_returns(c, <<FALSE, AlreadyRecording>>)
            /\ UNCHANGED <<recording_active, recording_thread, stop_recording_event,
                           ffmpeg_process, output_path, threads_alive,
                           processes_running, nrecordings>>
       ELSE IF ~picam_started
       THEN /\ cam_returns(c, <<FALSE, CameraNotReady>>)
            /\ UNCHANGED <<recording_active, recording_thread, stop_recording_event,
                           ffmpeg_process, output_path, threads_alive,
                           processes_running, nrecordings>>
       ELSE \E raised \in BOOLEAN :
               IF raised
               THEN /\ output_path' = filepath
                    /\ cam_returns(c, <<FALSE, StartFailed>>)
                    /\ UNCHANGED <<recording_active, recording_thread,
                                   stop_recording_event, ffmpeg_process,
                                   threads_alive, processes_running, nrecordings>>
               ELSE /\ nrecordings < MaxRecordings
                    /\ nrecordings' = nrecordings + 1
                    /\ output_path' = filepath
                    /\ ffmpeg_process' = <<nrecordings'>>
                    /\ processes_running' = processes_running \cup {nrecordings'}
                    /\ stop_recording_event' = FALSE
                    /\ recording_active' = TRUE
                    /\ recording_thread' = <<nrecordings'>>
                    /\ threads_alive' = threads_alive \cup {nrecordings'}
                    /\ cam_returns(c, <<TRUE, RecordingStarted>>)
    /\ UNCHANGED picam_started
    /\ cam_others_unchanged

\* camera_controller.py:184-189: the part of stop_recording under the lock.
stop_recording(c) ==
    /\ cam_pc[c] = "idle"
    /\ IF ~recording_in_progress(recording_active)
       THEN /\ cam_returns(c, <<FALSE, NoActiveRecording, None>>)
            /\ UNCHANGED <<recording_active, stop_recording_event>>
       ELSE /\ stop_recording_event' = TRUE
            /\ recording_active' = FALSE
            /\ cam_pc' = [cam_pc EXCEPT ![c] = "join"]
            /\ held' = [held EXCEPT ![c] = <<recording_thread, ffmpeg_process, output_path>>]
            /\ UNCHANGED cam_return
    /\ UNCHANGED <<picam_started, recording_thread, ffmpeg_process, output_path,
                   threads_alive, processes_running, nrecordings>>
    /\ cam_others_unchanged

\* camera_controller.py:191-194, outside the lock: join(timeout=5) on the
\* thread the global names now; it returns when that thread has ended or
\* after five seconds.
stop_recording_join(c) ==
    /\ cam_pc[c] = "join"
    /\ cam_pc' = [cam_pc EXCEPT ![c] = "close"]
    /\ UNCHANGED <<picam_started, recording_active, recording_thread,
                   stop_recording_event, ffmpeg_process, output_path,
                   threads_alive, processes_running, nrecordings, held,
                   cam_return>>
    /\ cam_others_unchanged

\* camera_controller.py:196-203: stdin.close() and wait(), or kill(), on the
\* process the global names now.
stop_recording_close(c) ==
    /\ cam_pc[c] = "close"
    /\ processes_running' =
          IF ffmpeg_process # None THEN processes_running \ {ffmpeg_process[1]}
          ELSE processes_running
    /\ cam_pc' = [cam_pc EXCEPT ![c] = "return"]
    /\ UNCHANGED <<picam_started, recording_active, recording_thread,
                   stop_recording_event, ffmpeg_process, output_path,
                   threads_alive, nrecordings, held, cam_return>>
    /\ cam_others_unchanged

\* camera_controller.py:205-206: the path the global holds now is returned.
stop_recording_return(c) ==
    /\ cam_pc[c] = "return"
    /\ cam_return' = [cam_return EXCEPT ![c] = <<TRUE, RecordingStopped, output_path>>]
    /\ cam_pc' = [cam_pc EXCEPT ![c] = "idle"]
    /\ held' = [held EXCEPT ![c] = None]
    /\ UNCHANGED <<picam_started, recording_active, recording_thread,
                   stop_recording_event, ffmpeg_process, output_path,
                   threads_alive, processes_running, nrecordings>>
    /\ cam_others_unchanged

\* camera_controller.py:91-115: the loop of a frame-feeding thread ends at the
\* first test of the event (lines 96, 109) that finds it set.
record_video_loop(n) ==
    /\ n \in threads_alive
    /\ stop_recording_event
    /\ threads_alive' = threads_alive \ {n}
    /\ UNCHANGED <<picam_started, recording_active, recording_thread,
                   stop_recording_event, ffmpeg_process, output_path,
                   processes_running, nrecordings, cam_pc, held, cam_return>>
    /\ cam_others_unchanged

\* initialize_camera (lines 31-60) has run and succeeded or failed.
InitCamera ==
    /\ no_job_yet
    /\ hc_not_followed
    /\ pip_not_followed
    /\ loop_not_followed
    /\ picam_started \in BOOLEAN
    /\ camera_imported

NextCamera ==
    \/ \E c \in CameraCallers, filepath \in Filepaths : capture_image(c, filepath)
    \/ \E c \in CameraCallers, filepath \in Filepaths : start_recording(c, filepath)
    \/ \E c \in CameraCallers : stop_recording(c)
    \/ \E c \in CameraCallers : stop_recording_join(c)
    \/ \E c \in CameraCallers : stop_recording_close(c)
    \/ \E c \in CameraCallers : stop_recording_return(c)
    \/ \E n \in 1..MaxRecordings : record_video_loop(n)

CameraSpec == InitCamera /\ [][NextCamera]_vars

\* ================================================================ claims
Contains(seq, x) == \E i \in DOMAIN seq : seq[i] = x
IsInfix(sub, seq) ==
    \E i \in 0..(Len(seq) - Len(sub)) : SubSeq(seq, i + 1, i + Len(sub)) = sub

Executing == {t \in Jobs : pc[t] \notin {"unborn", "done"}}
ErrorWritePcs == {"write_tflite_error", "write_homog_error", "write_exception_error"}
WritesError(t) == pc[t] \in ErrorWritePcs /\ pc'[t] = "done"
Terminal(rec) == rec.status \in {"complete", "error"}
OutputFields(rec) ==
    <<rec.output_url, rec.output_2d_url, rec.output_2d_zoom_url, rec.output_replay_url>>

\* The failure the task is about to report, as produced by the failing step.
OriginalReason(t) ==
    CASE pc[t] = "write_tflite_error" -> tflite_result[t][2]
      [] pc[t] = "write_homog_error" -> homog_result[t][2]
      [] pc[t] = "write_exception_error" -> e[t]
      [] OTHER -> None

\* The stage a running record shows to a poll.
StageShown(rec) ==
    IF rec.status # "running" \/ rec.message = None THEN 0
    ELSE IF rec.message = MsgStage1 THEN 1
    ELSE IF Head(rec.message) = "Stage 2/2" THEN 2
    ELSE 0

\* C1: while the stored status is running no request thread gets past the
\* status test, and the step that returns the rejection leaves the Job Record
\* unchanged and starts no task.
C1_RejectedStartChangesNothing ==
    [][ /\ \A r \in RequestThreads :
              (inference_status.status = "running" /\ req[r] = "idle")
                 => req'[r] = "idle"
        /\ (\E r \in RequestThreads : run_inference_route_reject(r))
              => /\ inference_status' = inference_status
                 /\ njobs' = njobs
                 /\ pc' = pc ]_vars

C1_Witness ==
    /\ http_response.route = "run_inference"
    /\ http_response.code = 400
    /\ http_response.body = <<"An inference job is already running.">>
    /\ inference_status = RunningRecord
    /\ Executing # {}

\* C2: at most one run_inference_task thread is executing at any time.
C2_AtMostOneTask == Cardinality(Executing) <= 1

\* C3: from its acceptance until its own terminal write, an accepted job sees
\* the status running.
C3_RunningUntilTerminalWrite ==
    \A t \in Jobs : t \in Executing => inference_status.status = "running"

\* C4: the record that Complete replaces is a running record showing stage 2.
C4_Stage2BeforeComplete ==
    [][ (inference_status'.status = "complete" /\ inference_status.status # "complete")
           => (inference_status.status = "running" /\ StageShown(inference_status) = 2) ]_vars

\* C5: a step of run_homography that reads the position-track table (the
\* validation read, or run_homography_check with its get_landing_point) is
\* taken only after the run_tflite thread of the same job has terminated.
C5_Stage2ReadsAfterStage1 ==
    [][ \A t \in Jobs :
           (homog_pc[t] \in {"validate", "check"} /\ homog_pc'[t] # homog_pc[t])
              => tflite_pc[t] = "done" ]_vars

C5_Witness ==
    \E t \in Jobs : homog_pc[t] = "check" /\ tflite_pc[t] = "done" /\ csv = "rows"

\* C6 (as stated): every task about to write the Error record has attempted
\* the fallback render.
C6_FallbackAlwaysAttempted ==
    \A t \in Jobs : pc[t] \in ErrorWritePcs => slowmo_calls[t] >= 1

\* C6 (amended): when the input file exists the fallback render has been
\* attempted before the Error record is written; when it does not exist the
\* exception handler attempts none and the main output is null; whenever the
\* render returned a path the Error record's main output is that path.
C6_FallbackWhenInputExists ==
    [][ \A t \in Jobs : WritesError(t) =>
           /\ inference_status'.status = "error"
           /\ exists(filesystem_path_of(input_video_path[t])) => slowmo_calls[t] >= 1
           /\ ~exists(filesystem_path_of(input_video_path[t]))
                 => /\ pc[t] = "write_exception_error"
                    /\ slowmo_calls[t] = 0
                    /\ inference_status'.output_url = None
           /\ slowmo_video_path[t] # None
                 => inference_status'.output_url = slowmo_video_path[t] ]_vars

C6_Witness ==
    /\ inference_status.status = "error"
    /\ inference_status.output_url = <<"line_call_inferences", "slowmo_clip.mp4">>
    /\ Contains(inference_status.message, SlowmoSuffix)

\* C7: when the fallback render returned no path, the task still writes a
\* record with status error, all four outputs null, and a message that holds
\* the original failure reason and no slow-motion notice.
C7_FallbackFailureKeepsReason ==
    [][ \A t \in Jobs :
           (WritesError(t) /\ slowmo_calls[t] >= 1 /\ slowmo_video_path[t] = None)
              => /\ inference_status'.status = "error"
                 /\ OutputFields(inference_status') = <<None, None, None, None>>
                 /\ OriginalReason(t) # None
                 /\ IsInfix(OriginalReason(t), inference_status'.message)
                 /\ ~Contains(inference_status'.message, SlowmoSuffix) ]_vars

C7_Witness ==
    /\ inference_status.status = "error"
    /\ inference_status.output_url = None
    /\ inference_status.message =
          <<"TFLite inference failed: ">> \o TfliteLoopError \o <<". ", RuntimeFailed>>

\* C8 (as stated): a complete record has all four outputs populated.
C8_AllOutputsPopulated ==
    inference_status.status = "complete"
       => \A i \in 1..4 : OutputFields(inference_status)[i] # None

\* C8 (amended): a complete record has its annotated-video output populated;
\* each of the other three outputs is the path of its render or null.
C8_MainOutputPopulated ==
    inference_status.status = "complete"
       => /\ inference_status.output_url = <<"line_call_inferences", "yolo_homog_clip.mp4">>
          /\ inference_status.output_2d_url \in
                {None, <<"line_call_inferences", "yolo_homog_clip_2d_full.png">>}
          /\ inference_status.output_2d_zoom_url \in
                {None, <<"line_call_inferences", "yolo_homog_clip_2d_zoom.png">>}
          /\ inference_status.output_replay_url \in
                {None, <<"line_call_inferences", "yolo_homog_clip_replay.mp4">>}

C8_Witness ==
    /\ inference_status.status = "complete"
    /\ inference_status.output_url # None
    /\ inference_status.output_2d_url = None
    /\ inference_status.output_replay_url # None

\* C9: an error record's message is non-empty and holds the elapsed time.
C9_ErrorMessageHasReasonAndTime ==
    inference_status.status = "error"
       => /\ inference_status.message # None
          /\ Contains(inference_status.message, RuntimeFailed)

\* C10: the step of a status poll leaves the stored Job Record as it was.
PollStep ==
    /\ http_response' = [route |-> "check_inference_status", code |-> 200,
                         body |-> with_urls(inference_status)]
    /\ UNCHANGED <<csv, req, njobs, task_vars>>

C10_PollLeavesRecord ==
    [][ PollStep => inference_status' = inference_status ]_vars

C10_Witness ==
    /\ http_response.route = "check_inference_status"
    /\ Terminal(inference_status)
    /\ http_response.body.status = inference_status.status
    /\ inference_status.output_url # None
    /\ http_response.body.output_url = <<"/", "static">> \o inference_status.output_url
    /\ http_response.body.message = inference_status.message

\* C11: the stored Job Record is always a record that one transition wrote
\* whole: the initial record, the running record of run_inference_route, a
\* Complete record or an Error record.
WrittenWhole(rec) ==
    \/ rec = IdleRecord
    \/ rec = RunningRecord
    \/ rec.status = "complete" /\ rec.message = MsgComplete \o <<RuntimeTotal>>
    \/ rec.status = "error" /\ Contains(rec.message, RuntimeFailed)

C11_RecordWrittenWhole == WrittenWhole(inference_status)

\* ---------------------------------------------- claims on HomographySpec
\* The steps of run_homography_check and of the job, seen from outside.
Returns(t) == hc_pc # "returned" /\ hc_pc' = "returned" /\ homog_pc[t] = "check"
Flagged(df) == {i \in DOMAIN df : df[i].DirectionChange \in {<<a>> : a \in 31..180}}
Visible(df) == {i \in DOMAIN df : df[i].Visibility = 1}
\* The flagged frames from which every step to the next flagged frame, up to
\* the last one, is at most 30 frames long.
LastGroup(df) ==
    {i \in Flagged(df) :
        \A j \in Flagged(df) : j >= i =>
           (\A k \in Flagged(df) : k > j => \E m \in Flagged(df) : m > j /\ m - j <= 30)}

\* A failure message returned by run_homography_check takes the job to the
\* Stage-2 failure branch, never to Complete, and that branch stores an Error
\* record that carries the message.
FailureEndsJobInError(message) ==
    \A t \in Jobs :
       /\ (pc[t] = "join" /\ pc'[t] # "join" /\ homog_result[t] # None
             /\ homog_result[t][2] = message)
            => /\ pc'[t] = "write_homog_error"
               /\ inference_status'.status # "complete"
       /\ (pc[t] = "write_homog_error" /\ pc'[t] = "done" /\ homog_result[t][2] = message)
            => /\ inference_status'.status = "error"
               /\ IsInfix(message, inference_status'.message)

\* A landing detection without a landing point makes run_homography_check
\* return the NoLandingPoint failure.
NoLandingIsReturned ==
    \A t \in Jobs :
       (Returns(t) /\ hc_pc = "landed" /\ landing[1] = None)
          => homog_result'[t] = <<FALSE, NoLandingPoint, None, None, None>>

\* C12: when no row of the table has a direction change above 30 degrees,
\* whatever the number of rows, get_landing_point returns no landing point,
\* run_homography_check returns the NoLandingPoint failure, and the job's
\* terminal write is an Error record, never Complete.
C12_NoTurnNoLanding ==
    [][ /\ (hc_pc' = "landed" /\ Flagged(df_visible') = {}) => landing'[1] = None
        /\ NoLandingIsReturned
        /\ FailureEndsJobInError(NoLandingPoint) ]_vars

C12_Witness ==
    /\ hc_pc = "landed"
    /\ Cardinality(DOMAIN df_visible) = MaxRows
    /\ \E i \in Visible(df_visible) : df_visible[i].DirectionChange = <<30>>
    /\ Flagged(df_visible) = {}
    /\ landing[1] = None

\* C13: the clusters are non-empty, partition the flagged frames in order,
\* two consecutive flagged frames share a cluster exactly when their index
\* gap is at most 30, and a landing frame comes from the last cluster only.
C13_ClustersByGap ==
    LET hits == hits_of(df_visible)
        clusters == clusters_of(hits)
        cluster_of(h) == CHOOSE c \in 1..Len(clusters) : Contains(clusters[c], h)
    IN  hits # <<>> =>
          /\ {hits[i] : i \in DOMAIN hits} = Flagged(df_visible)
          /\ \A c \in 1..Len(clusters) : clusters[c] # <<>>
          /\ \A h \in Flagged(df_visible) :
                Cardinality({c \in 1..Len(clusters) : Contains(clusters[c], h)}) = 1
          /\ \A c \in 1..Len(clusters) : \A i \in 1..Len(clusters[c]) :
                /\ i > 1 => clusters[c][i - 1] < clusters[c][i]
                /\ c > 1 => clusters[c - 1][Len(clusters[c - 1])] < clusters[c][1]
          /\ \A i \in 1..(Len(hits) - 1) :
                (cluster_of(hits[i]) = cluster_of(hits[i + 1]))
                   <=> (hits[i + 1] - hits[i] <= 30)
          /\ (hc_pc = "landed" /\ landing[1] # None)
                => Contains(clusters[Len(clusters)], landing[2])

C13_Witness ==
    /\ hc_pc = "landed"
    /\ Flagged(df_visible) = {1, 31, 62}
    /\ clusters_of(hits_of(df_visible)) = << <<1, 31>>, <<62>> >>
    /\ landing[1] # None

\* C14: a returned landing frame is the smallest frame of the last cluster
\* whose sample is visible, the landing point is that sample's (x, y), and
\* the frame is a flagged frame with visibility set.
C14_FirstVisibleOfLastCluster ==
    (hc_pc = "landed" /\ landing[1] # None) =>
       LET candidates == LastGroup(df_visible) \cap Visible(df_visible)
       IN  /\ candidates # {}
           /\ landing[2] \in candidates
           /\ \A i \in candidates : landing[2] <= i
           /\ landing[1] = <<df_visible[landing[2]].X[1], df_visible[landing[2]].Y[1]>>

C14_Witness ==
    /\ hc_pc = "landed"
    /\ Flagged(df_visible) = {26, 31, 32}
    /\ Visible(df_visible) = {31, 32}
    /\ landing[1] = <<7, 2>>
    /\ landing[2] = 31

\* C15: when no member of the last cluster has a visible sample the detector
\* returns no landing point, also when an earlier cluster holds visible
\* flagged frames; run_homography_check returns NoLandingPoint, the job ends
\* in error, and neither the detector nor run_homography_check is run again.
C15_NoFallbackToEarlierCluster ==
    [][ /\ (hc_pc' = "landed" /\ LastGroup(df_visible') \cap Visible(df_visible') = {})
              => landing'[1] = None
        /\ NoLandingIsReturned
        /\ FailureEndsJobInError(NoLandingPoint)
        /\ hc_pc # "start" => hc_pc' # "start"
        /\ \A t \in Jobs : homog_pc[t] # "check" => homog_pc'[t] # "check" ]_vars

C15_Witness ==
    /\ hc_pc = "landed"
    /\ Flagged(df_visible) \cap Visible(df_visible) # {}
    /\ LastGroup(df_visible) # {}
    /\ LastGroup(df_visible) \cap Visible(df_visible) = {}
    /\ landing[1] = None

\* The detections of a frame hold at least two boxes of class 2 and two of
\* class 3.
Qualifies(bx) ==
    /\ Cardinality({i \in DOMAIN bx : bx[i].cls = 2}) >= 2
    /\ Cardinality({i \in DOMAIN bx : bx[i].cls = 3}) >= 2

\* first and second are the two most confident boxes of class cid, in that
\* order.
TopTwo(bx, cid, first, second) ==
    /\ first # second
    /\ bx[first].cls = cid /\ bx[second].cls = cid
    /\ bx[first].conf >= bx[second].conf
    /\ \A i \in DOMAIN bx \ {first, second} :
          bx[i].cls = cid => bx[second].conf >= bx[i].conf

\* C16: in automatic mode the search loop reads at most int(fps * 3) frames;
\* a frame that does not hold two detections of each reference class yields
\* no homography; a return out of the search is a failure whose message is
\* not the NoLandingPoint one (AutoHomographyFailed unless something raised),
\* and that failure ends the job in error.
C16_BoundedSearchThenFailure ==
    [][ /\ hc_pc' \in {"scan", "detected", "writer"}
              => /\ scanned' * 10 <= fps' * 3
                 /\ (hc_pc = "detected" /\ ~Qualifies(boxes)) => H' = None
        /\ \A t \in Jobs :
              (Returns(t) /\ hc_pc \in {"scan", "detected"})
                 => /\ homog_result'[t][1] = FALSE
                    /\ homog_result'[t][2] \in {AutoHomographyFailed, HomographyRaised}
                    /\ homog_result'[t][2] # NoLandingPoint
                    /\ (hc_pc = "scan" /\ scanned * 10 + 10 > fps * 3)
                          => homog_result'[t][2] = AutoHomographyFailed
        /\ FailureEndsJobInError(AutoHomographyFailed) ]_vars

C16_Witness ==
    /\ hc_pc = "scan"
    /\ model
    /\ fps = 10
    /\ scanned = 3
    /\ H = None
    /\ ENABLED (\E t \in Jobs : hc_scan_exhausted(t))
    /\ ~ENABLED (\E t \in Jobs : hc_scan_read(t))

\* C17: in automatic mode findHomography is called at most once per call; it
\* is called on the frame just scanned, which qualifies, with the two most
\* confident boxes of each class; a qualifying frame is never passed over;
\* once H is set no further frame is read and H keeps its value until the
\* call returns.
C17_HomographyOnceFromFirstFrame ==
    [][ /\ findHomography_calls' <= 1
        /\ (model /\ H = None /\ H' # None)
              => /\ hc_pc = "detected"
                 /\ Qualifies(boxes)
                 /\ boxes' = boxes
                 /\ TopTwo(boxes, 2, detected_pts'[1], detected_pts'[2])
                 /\ TopTwo(boxes, 3, detected_pts'[3], detected_pts'[4])
        /\ (hc_pc = "detected" /\ Qualifies(boxes))
              => hc_pc' \in {"writer", "returned"}
        /\ (H # None /\ hc_pc' # "returned")
              => /\ H' = H
                 /\ scanned' = scanned
                 /\ findHomography_calls' = findHomography_calls ]_vars

C17_Witness ==
    /\ hc_pc = "writer"
    /\ model
    /\ H # None
    /\ scanned = 2
    /\ Len(boxes) = 5
    /\ boxes[1].cls = 2 /\ boxes[1].conf = 3
    /\ detected_pts = <<2, 3, 4, 5>>

\* C18: with four points supplied no frame is read by a search, the detector
\* is never loaded or run, the homography comes from the supplied points, and
\* the call never returns the automatic-detection or missing-detector failure.
C18_ManualModeSkipsSearch ==
    [][ \A t \in Jobs : (hc_called_by(t) /\ manual_points[t]) =>
           /\ hc_pc' \notin {"scan", "detected"}
           /\ scanned' = 0
           /\ model' = FALSE
           /\ boxes' = None
           /\ (H = None /\ H' # None) => detected_pts' = <<"manual_points">>
           /\ Returns(t) => homog_result'[t][2] \notin
                               {AutoHomographyFailed, YoloModelMissing} ]_vars

C18_Witness ==
    /\ hc_pc = "loop"
    /\ \E t \in Jobs : hc_called_by(t) /\ manual_points[t]
    /\ H # None
    /\ scanned = 0
    /\ ~model
    /\ show_result

\* C19: a call whose IN-zone polygon is missing because two mapped lines are
\* parallel returns a failure.
C19_ParallelLinesFail ==
    [][ \A t \in Jobs :
           (Returns(t) /\ hc_pc = "loop" /\ intersection_pts = None)
              => homog_result'[t][1] = FALSE ]_vars

\* C20: a call that returns success has computed the IN/OUT verdict exactly
\* once.
C20_VerdictExactlyOnce ==
    [][ \A t \in Jobs :
           (Returns(t) /\ homog_result'[t][1])
              => (show_result /\ point_in_polygon_calls = 1) ]_vars

\* Plane geometry of a closed four-sided path q and a point p.
Cross(a, b, p) == (b[1] - a[1]) * (p[2] - a[2]) - (b[2] - a[2]) * (p[1] - a[1])
Between(u, v, w) == (u <= w /\ w <= v) \/ (v <= w /\ w <= u)
OnSegment(a, b, p) ==
    Cross(a, b, p) = 0 /\ Between(a[1], b[1], p[1]) /\ Between(a[2], b[2], p[2])
EdgeEnd(q, i) == q[(i % Len(q)) + 1]
OnBoundary(q, p) == \E i \in 1..Len(q) : OnSegment(q[i], EdgeEnd(q, i), p)
\* Signed number of times edge a -> b passes over the ray going up from p.
TurnOver(a, b, p) ==
    IF a[1] <= p[1] /\ p[1] < b[1] /\ Cross(a, b, p) < 0 THEN -1
    ELSE IF b[1] <= p[1] /\ p[1] < a[1] /\ Cross(a, b, p) > 0 THEN 1
    ELSE 0
RECURSIVE Winding(_, _, _)
Winding(q, p, i) ==
    IF i > Len(q) THEN 0 ELSE TurnOver(q[i], EdgeEnd(q, i), p) + Winding(q, p, i + 1)
StrictlyInside(q, p) == ~OnBoundary(q, p) /\ Winding(q, p, 1) # 0
Outside(q, p) == ~OnBoundary(q, p) /\ Winding(q, p, 1) = 0

\* C21: for every quadrilateral with integer vertices and every integer
\* point, point_in_polygon returns True when the point is strictly inside the
\* quadrilateral or on one of its edges or vertices, and False when it is
\* outside.
C21_BoundaryInclusive ==
    pip_result # None =>
        /\ StrictlyInside(pip_polygon, pip_point) => pip_result[1] = TRUE
        /\ OnBoundary(pip_polygon, pip_point) => pip_result[1] = TRUE
        /\ Outside(pip_polygon, pip_point) => pip_result[1] = FALSE

\* A point in the middle of the slanted edge of a trapezoid is classed inside.
C21_Witness ==
    /\ pip_polygon = <<<<0, 0>>, <<2, 2>>, <<1, 2>>, <<0, 1>>>>
    /\ pip_point = <<1, 1>>
    /\ OnBoundary(pip_polygon, pip_point)
    /\ pip_result = <<TRUE>>

\* The step of the processing loop that computes the verdict (line 602).
Verdict == ~show_result /\ show_result'
\* The artifact paths of a result of run_homography_check.
Artifacts(result) == <<result[3], result[4], result[5]>>

\* C22: at the verdict the three renders are all called, in order, whichever
\* of them fail; a render that fails leaves its output None and one that
\* succeeds leaves its path; the call goes on to the next frame, its success
\* return carries the three outputs as they are, and the job that reads a
\* success with None outputs writes the Complete record with them.
C22_RendersBestEffort ==
    [][ /\ Verdict =>
             /\ hc_pc' = "loop"
             /\ Len(render_log') = 3
             /\ \A i \in 1..3 :
                   /\ render_log'[i][1] = RenderCalls[i]
                   /\ ~render_log'[i][2] => web_paths'[i] = None
                   /\ render_log'[i][2] => web_paths'[i] # None
        /\ \A t \in Jobs :
             /\ (Returns(t) /\ homog_result'[t][1])
                   => Artifacts(homog_result'[t]) = web_paths
             /\ (pc[t] = "join" /\ pc'[t] # "join" /\ homog_result[t] # None
                   /\ homog_result[t][1])
                   => /\ inference_status'.status = "complete"
                      /\ inference_status'.output_2d_url = homog_result[t][3]
                      /\ inference_status'.output_2d_zoom_url = homog_result[t][4]
                      /\ inference_status'.output_replay_url = homog_result[t][5] ]_vars

\* The full diagram failed, the other two renders produced their files, the
\* call has returned success with them and the job is about to store it.
C22_Witness ==
    \E t \in Jobs :
       /\ pc[t] = "join"
       /\ homog_pc[t] = "done"
       /\ homog_result[t] # None
       /\ homog_result[t][1]
       /\ homog_result[t][3] = None
       /\ homog_result[t][4] # None
       /\ homog_result[t][5] # None

\* The rows carry the frame indices 0, 1, 2, ... in row order.
Contiguous(rows) == \A i \in 1..Len(rows) : rows[i][1] = i - 1
\* The largest multiple of 9 not above n.
WholeSequences(n) == image_num_frame * (n \div image_num_frame)

\* C23 as stated: the rows of the table are numbered 0, 1, 2, ... in row
\* order, and once run_inference_on_video has returned, however it returned,
\* the number of rows is the largest multiple of 9 not above the number of
\* frames read.
C23_TableContiguousAndWhole ==
    /\ Contiguous(csv_lines)
    /\ loop_result # None => Len(csv_lines) = WholeSequences(frames_read)

\* C23 amended: the rows of the table are numbered 0, 1, 2, ... in row order
\* at every moment; the number of rows is a multiple of 9 not above the number
\* of frames read, and the largest one when run_inference_on_video returns
\* success.
C23_ContiguousAndWholeOnSuccess ==
    /\ Contiguous(csv_lines)
    /\ Len(csv_lines) % image_num_frame = 0
    /\ Len(csv_lines) <= frames_read
    /\ (loop_result # None /\ loop_result[1])
          => Len(csv_lines) = WholeSequences(frames_read)

\* A video of 97 frames: one full batch of 72, then 25 frames of which the
\* last 7 are dropped; 90 rows.
C23_Witness ==
    /\ loop_result # None
    /\ loop_result[1]
    /\ frames_read = 97
    /\ Len(csv_lines) = 90
    /\ csv_lines[90] = <<89, TRUE>>

\* C24: when Stage-1 of a job has returned success and the table holds the
\* header only, the validation read of Stage-2 raises instead of calling
\* run_homography_check (which is only ever called on a table with data
\* rows), the job takes that exception to its handler, and the record the job
\* writes has status error and reports the unreadable table; a single job
\* never ends complete on a table without data rows.
C24_EmptyTableEndsInError ==
    [][ /\ \A t \in Jobs :
             /\ (homog_pc[t] = "validate" /\ homog_pc'[t] # "validate"
                   /\ csv = "header" /\ tflite_result[t] # None /\ tflite_result[t][1])
                   => /\ homog_pc'[t] = "done"
                      /\ homog_exception'[t] = CsvUnreadable
                      /\ homog_result'[t] = None
             /\ (homog_pc[t] # "check" /\ homog_pc'[t] = "check") => csv = "rows"
             /\ (pc[t] = "join" /\ pc'[t] # "join" /\ tflite_exception[t] = None
                   /\ tflite_result[t][1] /\ homog_exception[t] = CsvUnreadable)
                   => /\ pc'[t] = "write_exception_error"
                      /\ e'[t] = CsvUnreadable
             /\ (pc[t] = "write_exception_error" /\ pc'[t] = "done"
                   /\ e[t] = CsvUnreadable)
                   => /\ inference_status'.status = "error"
                      /\ IsInfix(CsvUnreadable, inference_status'.message)
        /\ (njobs = 1 /\ inference_status.status = "complete") => csv = "rows" ]_vars

\* The only job so far: Stage-1 succeeded without a row, Stage-2 raised on the
\* header-only table, and the handler is about to write the Error record.
C24_Witness ==
    \E t \in Jobs :
       /\ njobs = 1
       /\ csv = "header"
       /\ pc[t] = "write_exception_error"
       /\ e[t] = CsvUnreadable

\* Stage-1 of job t failed: run_inference_on_video returned failure, or raised.
Stage1Failed(t) ==
    \/ tflite_exception[t] # None
    \/ tflite_result[t] # None /\ ~tflite_result[t][1]
\* The record carries nothing that run_homography_check returned.
NothingOfStage2(rec, t) ==
    /\ rec.output_2d_url = None
    /\ rec.output_2d_zoom_url = None
    /\ rec.output_replay_url = None
    /\ rec.output_url \in {None, slowmo_video_path[t]}
    /\ homog_result[t] # None => rec.output_url # homog_result[t][2]

\* C25: when Stage-1 of a job has failed, whatever Stage-2 stored (an
\* exception on a missing table, or a result computed on a table left by an
\* earlier job), the job leaves the join for a failure branch of Stage-1: the
\* handler with the exception Stage-1 raised, or the `not success_tflite`
\* branch; the record it then writes has status error, its message carries the
\* Stage-1 failure, and none of its outputs comes from Stage-2.
C25_Stage1FailureReported ==
    [][ \A t \in Jobs :
           /\ (pc[t] = "join" /\ pc'[t] # "join" /\ Stage1Failed(t))
                 => IF tflite_exception[t] # None
                    THEN pc'[t] = "write_exception_error" /\ e'[t] = tflite_exception[t]
                    ELSE /\ pc'[t] = "write_tflite_error"
                         /\ tflite_result'[t] = tflite_result[t]
           /\ (pc[t] = "write_tflite_error" /\ pc'[t] = "done")
                 => /\ inference_status'.status = "error"
                    /\ IsInfix(tflite_result[t][2], inference_status'.message)
                    /\ NothingOfStage2(inference_status', t)
           /\ (pc[t] = "write_exception_error" /\ pc'[t] = "done" /\ e[t] = TfliteRaised)
                 => /\ inference_status'.status = "error"
                    /\ IsInfix(TfliteRaised, inference_status'.message)
                    /\ NothingOfStage2(inference_status', t) ]_vars

\* The model failed to load, Stage-2 succeeded on the table an earlier job
\* left, and the job is about to write its record.
C25_Witness ==
    \E t \in Jobs :
       /\ pc[t] = "write_tflite_error"
       /\ tflite_result[t] = <<FALSE, TfliteLoadError>>
       /\ homog_result[t] # None
       /\ homog_result[t][1]

\* C26: a job never calls create_full_slowmotion_video more than once, and a
\* job that writes the Complete record has not called it.
C26_FallbackAtMostOnce ==
    [][ \A t \in Jobs :
           /\ slowmo_calls[t] <= 1
           /\ slowmo_calls'[t] <= 1
           /\ (pc[t] # "done" /\ pc'[t] = "done"
                 /\ inference_status'.status = "complete")
                 => slowmo_calls[t] = 0 ]_vars

\* The exception handler has rendered the fallback once and is about to write
\* the Error record.
C26_Witness ==
    \E t \in Jobs :
       /\ pc[t] = "write_exception_error"
       /\ slowmo_calls[t] = 1
       /\ slowmo_video_path[t] # None

\* The web paths create_full_slowmotion_video can return for an input.
FallbackPaths ==
    UNION {create_full_slowmotion_video(OUTPUT_DIR_INFERENCES, base_filename_of(i)) :
              i \in InputPaths \ {None}} \ {None}

\* C27: in every state, a stored Job Record with status running or error has
\* no full diagram, no zoomed diagram and no replay; a running one has no main
\* video either, and an error one has either none or a fallback path.
C27_NoArtifactsUnlessComplete ==
    inference_status.status \in {"running", "error"} =>
        /\ inference_status.output_2d_url = None
        /\ inference_status.output_2d_zoom_url = None
        /\ inference_status.output_replay_url = None
        /\ inference_status.status = "running" => inference_status.output_url = None
        /\ inference_status.status = "error"
              => inference_status.output_url \in FallbackPaths \cup {None}

\* Two jobs were accepted; one has written the Error record with the fallback
\* video after the other one's records.
C27_Witness ==
    /\ njobs = 2
    /\ inference_status.status = "error"
    /\ inference_status.output_url \in FallbackPaths
    /\ \E t \in Jobs : pc[t] = "done"
    /\ \E t \in Jobs : pc[t] \notin {"done", "unborn"}

\* C28: a call of run_homography_check that has opened the input video
\* returns with the capture released, whichever return it takes.
C28_CaptureReleasedOnReturn ==
    [][ \A t \in Jobs : (Returns(t) /\ cap = "open") => cap' = "released" ]_vars

\* ------------------------------------------------- claims on CameraSpec
\* The recording as the camera module holds it.
Recording == <<recording_active, recording_thread, ffmpeg_process, output_path>>

\* C29: a call of start_recording or of capture_image made while
\* recording_active is set, and a call of stop_recording made while it is not,
\* returns failure with its message and leaves recording_active, the ffmpeg
\* process (the object named and the processes running), the thread and the
\* output path as they were.
C29_RejectedCallsChangeNothing ==
    [][ \A c \in CameraCallers :
           /\ \A filepath \in Filepaths :
                 /\ (recording_active /\ start_recording(c, filepath))
                       => /\ cam_return'[c] = <<FALSE, AlreadyRecording>>
                          /\ UNCHANGED <<Recording, processes_running, threads_alive>>
                 /\ (recording_active /\ capture_image(c, filepath))
                       => /\ cam_return'[c] = <<FALSE, RecordingIsActive>>
                          /\ UNCHANGED <<Recording, processes_running, threads_alive>>
           /\ (~recording_active /\ stop_recording(c))
                 => /\ cam_return'[c] = <<FALSE, NoActiveRecording, None>>
                    /\ cam_pc'[c] = "idle"
                    /\ UNCHANGED <<Recording, processes_running, threads_alive>> ]_vars

\* Recording 1 is running; one caller's start_recording and the other's
\* capture_image have been turned down.
C29_Witness ==
    /\ recording_active
    /\ ffmpeg_process = <<1>>
    /\ processes_running = {1}
    /\ cam_return[1] = <<FALSE, AlreadyRecording>>
    /\ cam_return[2] = <<FALSE, RecordingIsActive>>

\* C30: at most one frame-feeding thread is alive at a time, and a call of
\* stop_recording joins the thread, closes the ffmpeg process and returns the
\* output path that were current when it took the lock, not those of a
\* recording started since.
C30_StopActsOnItsRecording ==
    [][ /\ Cardinality(threads_alive') <= 1
        /\ \A c \in CameraCallers :
              /\ (cam_pc[c] = "join" /\ cam_pc'[c] = "close")
                    => recording_thread = held[c][1]
              /\ (cam_pc[c] = "close" /\ cam_pc'[c] = "return")
                    => ffmpeg_process = held[c][2]
              /\ (cam_pc[c] = "return" /\ cam_pc'[c] = "idle")
                    => cam_return'[c][3] = held[c][3] ]_vars

====
